---- MODULE Spec2Model ----
(***************************************************************************)
(* Model of the reactive lock-enforcement engine of src/bot.js: the        *)
(* Policy Store (locks), its persisted snapshot, and the listenMqtt        *)
(* handler, one cooperative task per incoming occurrence, cut at every     *)
(* await of the source.                                                    *)
(***************************************************************************)
EXTENDS Integers, Sequences, FiniteSets, TLC

\* ---------------------------------------------------------------- bounds
MaxOcc == 2        \* occurrences delivered in one behaviour
MaxExternal == 2   \* changes made by other participants under a stable lock
MaxEchoTasks == 10 \* handlers started in one behaviour of the echo run
MaxBulk == 16      \* members of the large thread of the bulk specification
MaxRestoreOcc == 2 \* occurrences delivered after a restore from a snapshot
MaxTwinOcc == 1    \* occurrences delivered to each of the two twin threads
MaxKids == 4       \* engine processes the panel forks in one behaviour

\* ------------------------------------------------------ program constants
BatchSize == 15
Retries == 3
BatchPause == 350
BOSS_UID == 2

\* ------------------------------------------------------------- universes
SelfId == 1                 \* api.getCurrentUserID()
NoUid == 0                  \* an absent (undefined / null) member id
Threads == {"t1", "t2"}
Values == {"a", "b"}        \* names, nicknames, icons
Fields == {"groupNames", "nicknames", "emojis", "antiOut"}

VARIABLES locks, disk, tasks, alive, rosters, flaky

\* the panel (src/index.js): procs maps an administrator to the child it
\* tracks; kids are the engine processes forked so far
VARIABLES procs, kids

vars == <<locks, disk, tasks, alive, rosters, flaky, procs, kids>>

\* ------------------------------------------------- JS objects as functions
Has(m, k) == k \in DOMAIN m
Put(m, k, v) == [x \in (DOMAIN m) \cup {k} |-> IF x = k THEN v ELSE m[x]]
Del(m, k) == [x \in (DOMAIN m) \ {k} |-> m[x]]
EmptyObj == [x \in {} |-> ""]
Truthy(v) == v # ""

\* lk.<field>?.[key] : undefined ("" for strings) when anything is missing
GetIn(lk, field, k) ==
    IF Has(lk, field) /\ Has(lk[field], k) THEN lk[field][k] ELSE ""
Get(field, k) == GetIn(locks, field, k)

NickIn(lk, t, u) ==
    IF Has(lk, "nicknames") /\ Has(lk["nicknames"], t)
       /\ Has(lk["nicknames"][t], u)
    THEN lk["nicknames"][t][u] ELSE ""
NickOf(t, u) == NickIn(locks, t, u)

DefaultLocks == [f \in Fields |-> EmptyObj]


\* --------------------------------------------------- external call records
\* one entry of a handler's trace: an external call it issued (att = index
\* of the attempt inside retryChangeNick) or a sleep it started (ms)
Call(op, t, u, v) ==
    [op |-> op, thread |-> t, uid |-> u, val |-> v, att |-> 0, ms |-> 0,
     info |-> {}, res |-> "pending"]
Attempt(t, u, v, i) == [Call("changeNickname", t, u, v) EXCEPT !.att = i]
Sleep(n) == [Call("sleep", "", NoUid, "") EXCEPT !.ms = n, !.res = "ok"]
Msg(kind, dest) == Call("sendMessage", dest, NoUid, kind)
InfoMsg(dest, active) == [Msg("info", dest) EXCEPT !.info = active]

\* a backoff that does not grow
Delay_m(i) == 250

\* sleep(250 + i * 150) after failed attempt i
Delay(i) == 250 + i * 150
\* the backoff sleep of retryChangeNick for member u after attempt i
RetrySleep(u, i) == [Sleep(Delay(i)) EXCEPT !.uid = u, !.att = i]

\* ------------------------------------------------------------ occurrences
Ev(type, logType, t, sender, body, u, v) ==
    [type |-> type, logType |-> logType, thread |-> t, sender |-> sender,
     body |-> body, uid |-> u, val |-> v]

\* the handler's task: position (pc), locals, the trace of its calls, and
\* the store as the handler found it (seen)
NewTask(ev) ==
    [ev |-> ev, seen |-> locks, pc |-> "done", trace |-> <<>>, batch |-> EmptyObj,
     list |-> <<>>, list2 |-> <<>>, idx |-> 0, val |-> "", uid |-> NoUid, cont |-> "",
     escaped |-> FALSE, caught |-> FALSE]

\* `return api.sendMessage(text, threadID)` : the reply is in flight and its
\* promise is returned, not awaited
Reply(tk, kind, dest) ==
    [tk EXCEPT !.pc = "reply", !.trace = Append(@, Msg(kind, dest))]
\* an awaited call
Await(tk, pc, c) == [tk EXCEPT !.pc = pc, !.trace = Append(@, c)]
\* a TypeError thrown in the handler's synchronous code and caught by the
\* outer catch
Thrown(tk) == [tk EXCEPT !.pc = "done", !.caught = TRUE]

\* result of one synchronous segment: the task, the store, saveLocks() called
Res(tk, lk, saved) == [tk |-> tk, lk |-> lk, saved |-> saved]

\* ------------------------------------------------ retryChangeNick batches
RECURSIVE AttemptsOf(_, _, _)
AttemptsOf(t, us, v) ==
    IF us = <<>> THEN <<>>
    ELSE <<Attempt(t, us[1], v, 0)>> \o AttemptsOf(t, Tail(us), v)

Min(a, b) == IF a < b THEN a ELSE b

\* a slice that is not cut at the batch size
Slice_m(list, i) == SubSeq(list, i + 1, Len(list))

\* members.slice(i, i + batchSize)
Slice(list, i) == SubSeq(list, i + 1, Min(i + BatchSize, Len(list)))

Range(s) == {s[k] : k \in 1..Len(s)}

\* batch.map(uid => retryChangeNick(...)): every first attempt is issued in
\* the same synchronous segment
StartBatch(tk, list, i, v, cont) ==
    [tk EXCEPT !.pc = "nick", !.list = list, !.idx = i, !.val = v,
               !.cont = cont,
               !.batch = [u \in Range(Slice(list, i)) |->
                            [i |-> 0, st |-> "inflight"]],
               !.trace = @ \o AttemptsOf(tk.ev.thread, Slice(list, i), v)]

BatchSettled(tk) ==
    \A u \in DOMAIN tk.batch : tk.batch[u].st \in {"ok", "fail"}


\* the outcome of the call the task is waiting for (its last trace entry)
Settled(tk, r) == [tk EXCEPT !.trace[Len(tk.trace)].res = r]

\* the outcome of attempt i of retryChangeNick for member u
AttemptSettled(tk, u, r) ==
    LET k == CHOOSE k \in 1..Len(tk.trace) :
                 /\ tk.trace[k].op = "changeNickname"
                 /\ tk.trace[k].uid = u
                 /\ tk.trace[k].res = "pending"
    IN [tk EXCEPT !.trace[k].res = r]

\* ------------------------------------------- handler: type === "event"
RemoveTypes ==
    {"log:unsubscribe", "log:remove", "log:remove-participant", "log:user-left"}
\* logType.includes("remove"), for the sub-type strings of the model
IncludesRemove(lt) ==
    lt \in {"log:remove", "log:remove-participant", "log:remove-admin"}

AntiIn(lk, t) == Has(lk, "antiOut") /\ Has(lk["antiOut"], t)
AntiOn(t) == AntiIn(locks, t)

\* a revert that sends the observed name back instead of the locked one
OnThreadName_m(tk) ==
    LET newName == tk.ev.val
        lockedName == Get("groupNames", tk.ev.thread)
    IN IF Truthy(lockedName) /\ newName # lockedName
       THEN Res(Await(tk, "revertTitle",
                      Call("setTitle", tk.ev.thread, NoUid, newName)),
                locks, FALSE)
       ELSE Res(tk, locks, FALSE)

\* a title revert issued for every title occurrence of a locked thread
OnThreadName_always(tk) ==
    LET lockedName == Get("groupNames", tk.ev.thread)
    IN IF Truthy(lockedName)
       THEN Res(Await(tk, "revertTitle",
                      Call("setTitle", tk.ev.thread, NoUid, lockedName)),
                locks, FALSE)
       ELSE Res(tk, locks, FALSE)

OnThreadName(tk) ==
    LET newName == tk.ev.val
        lockedName == Get("groupNames", tk.ev.thread)
    IN IF Truthy(lockedName) /\ newName # lockedName
       THEN Res(Await(tk, "revertTitle",
                      Call("setTitle", tk.ev.thread, NoUid, lockedName)),
                locks, FALSE)
       ELSE Res(tk, locks, FALSE)

\* a revert that sets the nickname of the occurrence's sender
RevertSingleNick_m(tk, uid) ==
    LET locked == NickOf(tk.ev.thread, uid)
    IN IF ~Truthy(locked) THEN tk
       ELSE StartBatch(tk, <<tk.ev.sender>>, 0, locked, "revert")

\* revertSingleNick: re-reads the lock, then retryChangeNick
RevertSingleNick(tk, uid) ==
    LET locked == NickOf(tk.ev.thread, uid)
    IN IF ~Truthy(locked) THEN tk
       ELSE StartBatch(tk, <<uid>>, 0, locked, "revert")

\* a revert that spares the member stored as the thread's target
OnNickname_target(tk) ==
    LET changedUID == tk.ev.uid
        newNick == tk.ev.val
        lockedForThis == NickOf(tk.ev.thread, changedUID)
    IN IF Truthy(lockedForThis) /\ lockedForThis # newNick
          /\ Get("target", tk.ev.thread)
               # (CASE changedUID = 2 -> "2" [] changedUID = 3 -> "3"
                    [] OTHER -> "none")
       THEN LET r == RevertSingleNick(tk, changedUID)
            IN IF r.pc = "nick" THEN Res(r, locks, FALSE)
               ELSE Res(Await(tk, "notify", Msg("notify", tk.ev.thread)),
                        locks, FALSE)
       ELSE Res(tk, locks, FALSE)

OnNickname(tk) ==
    LET changedUID == tk.ev.uid
        newNick == tk.ev.val
        lockedForThis == NickOf(tk.ev.thread, changedUID)
    IN IF Truthy(lockedForThis) /\ lockedForThis # newNick
       THEN LET r == RevertSingleNick(tk, changedUID)
            IN IF r.pc = "nick" THEN Res(r, locks, FALSE)
               ELSE Res(Await(tk, "notify", Msg("notify", tk.ev.thread)),
                        locks, FALSE)
       ELSE Res(tk, locks, FALSE)

\* a revert that does not compare the observed icon with the locked one
OnThreadIcon_m(tk) ==
    LET lockedEmoji == Get("emojis", tk.ev.thread)
    IN IF Truthy(lockedEmoji)
       THEN Res(Await(tk, "revertEmoji",
                      Call("changeThreadEmoji", tk.ev.thread, NoUid,
                           lockedEmoji)),
                locks, FALSE)
       ELSE Res(tk, locks, FALSE)

OnThreadIcon(tk) ==
    LET currentEmoji == tk.ev.val
        lockedEmoji == Get("emojis", tk.ev.thread)
    IN IF Truthy(lockedEmoji) /\ lockedEmoji # currentEmoji
       THEN Res(Await(tk, "revertEmoji",
                      Call("changeThreadEmoji", tk.ev.thread, NoUid,
                           lockedEmoji)),
                locks, FALSE)
       ELSE Res(tk, locks, FALSE)

\* anti-out with the test of the engine's own identity inverted
OnRemove_m(tk) ==
    LET leftUID == tk.ev.uid
        isAnti == AntiOn(tk.ev.thread)
    IN IF leftUID = NoUid THEN Res(tk, locks, FALSE)
       ELSE IF isAnti /\ leftUID = SelfId
       THEN Res(Await(tk, "antiAdd",
                      Call("addUserToGroup", tk.ev.thread, leftUID, "")),
                locks, FALSE)
       ELSE Res(tk, locks, FALSE)

OnRemove(tk) ==
    LET leftUID == tk.ev.uid
        isAnti == AntiOn(tk.ev.thread)
    IN IF leftUID = NoUid THEN Res(tk, locks, FALSE)
       ELSE IF isAnti /\ leftUID # SelfId
       THEN Res(Await(tk, "antiAdd",
                      Call("addUserToGroup", tk.ev.thread, leftUID, "")),
                locks, FALSE)
       ELSE Res(tk, locks, FALSE)


\* ----------------------------------------------------- command parsing
\* String.prototype.toLowerCase, for the words of the model
ToLower(w) ==
    CASE w = "ON" -> "on"
      [] w = "Help" -> "help"
      [] w = "GroupName" -> "groupname"
      [] OTHER -> w

\* replace(/^\//, "")
StripSlash(w) ==
    CASE w = "/groupname" -> "groupname"
      [] w = "/uid" -> "uid"
      [] w = "/Help" -> "Help"
      [] OTHER -> w

RawCmd(parts) == ToLower(StripSlash(parts[1]))

\* args[k - 1] || ""
Arg(args, k) == IF Len(args) >= k THEN args[k] ELSE ""

\* args.slice(k - 1).join(" ").trim()
RECURSIVE Join(_)
Join(ws) ==
    IF ws = <<>> THEN ""
    ELSE IF Len(ws) = 1 THEN ws[1]
    ELSE ws[1] \o " " \o Join(Tail(ws))
Rest(args, k) == Join(SubSeq(args, k, Len(args)))

\* a member id written in a message, as the key it is in locks.nicknames
ParseUid(w) ==
    CASE w = "1" -> 1 [] w = "2" -> 2 [] w = "3" -> 3 [] OTHER -> NoUid

\* Object.keys(existed), in ascending order of the ids
RECURSIVE Keys(_)
Keys(S) ==
    IF S = {} THEN <<>>
    ELSE LET m == CHOOSE x \in S : \A y \in S : x <= y
         IN <<m>> \o Keys(S \ {m})

\* if (!locks.nicknames[threadID]) locks.nicknames[threadID] = {}
EnsureNick(lk, t) ==
    IF Has(lk["nicknames"], t) THEN lk
    ELSE [lk EXCEPT !["nicknames"] = Put(@, t, EmptyObj)]

\* a `groupname on` that toggles: repeating the locked name unlocks
CmdGroupName_m(tk, args) ==
    LET t == tk.ev.thread
        sub == ToLower(Arg(args, 1))
        name == Rest(args, 2)
    IN IF sub = "on" THEN
         IF name = "" THEN Res(Reply(tk, "usage", t), locks, FALSE)
         ELSE IF ~Has(locks, "groupNames") THEN Res(Thrown(tk), locks, FALSE)
         ELSE IF Get("groupNames", t) = name
         THEN Res(Reply(tk, "unlocked", t),
                  [locks EXCEPT !["groupNames"] = Del(@, t)], TRUE)
         ELSE Res(Await(tk, "cmdTitle", Call("setTitle", t, NoUid, name)),
                  [locks EXCEPT !["groupNames"] = Put(@, t, name)], TRUE)
       ELSE IF sub = "off" THEN
         IF ~Has(locks, "groupNames") THEN Res(Thrown(tk), locks, FALSE)
         ELSE Res(Reply(tk, "unlocked", t),
                  [locks EXCEPT !["groupNames"] = Del(@, t)], TRUE)
       ELSE Res(Reply(tk, "usage", t), locks, FALSE)

\* a `groupname off` that acknowledges and keeps the lock
CmdGroupName_keep(tk, args) ==
    LET t == tk.ev.thread
        sub == ToLower(Arg(args, 1))
        name == Rest(args, 2)
    IN IF sub = "on" THEN
         IF name = "" THEN Res(Reply(tk, "usage", t), locks, FALSE)
         ELSE IF ~Has(locks, "groupNames") THEN Res(Thrown(tk), locks, FALSE)
         ELSE Res(Await(tk, "cmdTitle", Call("setTitle", t, NoUid, name)),
                  [locks EXCEPT !["groupNames"] = Put(@, t, name)], TRUE)
       ELSE IF sub = "off" THEN
         IF ~Has(locks, "groupNames") THEN Res(Thrown(tk), locks, FALSE)
         ELSE Res(Reply(tk, "unlocked", t), locks, TRUE)
       ELSE Res(Reply(tk, "usage", t), locks, FALSE)

CmdGroupName(tk, args) ==
    LET t == tk.ev.thread
        sub == ToLower(Arg(args, 1))
        name == Rest(args, 2)
    IN IF sub = "on" THEN
         IF name = "" THEN Res(Reply(tk, "usage", t), locks, FALSE)
         ELSE IF ~Has(locks, "groupNames") THEN Res(Thrown(tk), locks, FALSE)
         ELSE Res(Await(tk, "cmdTitle", Call("setTitle", t, NoUid, name)),
                  [locks EXCEPT !["groupNames"] = Put(@, t, name)], TRUE)
       ELSE IF sub = "off" THEN
         IF ~Has(locks, "groupNames") THEN Res(Thrown(tk), locks, FALSE)
         ELSE Res(Reply(tk, "unlocked", t),
                  [locks EXCEPT !["groupNames"] = Del(@, t)], TRUE)
       ELSE Res(Reply(tk, "usage", t), locks, FALSE)

CmdNicknames(tk, args) ==
    LET t == tk.ev.thread
        sub == ToLower(Arg(args, 1))
        nickname == Rest(args, 2)
    IN IF sub = "on" THEN
         IF nickname = "" THEN Res(Reply(tk, "usage", t), locks, FALSE)
         ELSE IF ~Has(locks, "nicknames") THEN Res(Thrown(tk), locks, FALSE)
         ELSE Res(Await([tk EXCEPT !.val = nickname], "fetch1",
                        Call("getThreadInfo", t, NoUid, "")),
                  EnsureNick(locks, t), FALSE)
       ELSE IF sub = "off" THEN
         IF ~Has(locks, "nicknames") THEN Res(Thrown(tk), locks, FALSE)
         ELSE IF Has(locks["nicknames"], t) THEN
           LET uids == Keys(DOMAIN locks["nicknames"][t])
           IN IF uids # <<>>
              THEN Res(StartBatch(tk, uids, 0, "", "bulkOff"), locks, FALSE)
              ELSE Res(Reply(tk, "unlocked", t),
                       [locks EXCEPT !["nicknames"] = Del(@, t)], TRUE)
         ELSE Res(Reply(tk, "unlocked", t), locks, FALSE)
       ELSE Res(Reply(tk, "usage", t), locks, FALSE)

CmdNickname(tk, args) ==
    LET t == tk.ev.thread
        sub == ToLower(Arg(args, 1))
        targetUid == ParseUid(Arg(args, 2))
        nickname == Rest(args, 3)
    IN IF sub = "on" THEN
         IF targetUid = NoUid \/ nickname = ""
         THEN Res(Reply(tk, "usage", ""), locks, FALSE)
         ELSE IF ~Has(locks, "nicknames") THEN Res(Thrown(tk), locks, FALSE)
         ELSE Res(StartBatch([tk EXCEPT !.uid = targetUid], <<targetUid>>, 0,
                             nickname, "nickOn"),
                  EnsureNick(locks, t), FALSE)
       ELSE IF sub = "off" THEN
         IF targetUid = NoUid THEN Res(Reply(tk, "usage", ""), locks, FALSE)
         ELSE IF ~Has(locks, "nicknames") THEN Res(Thrown(tk), locks, FALSE)
         ELSE IF Truthy(NickOf(t, targetUid))
         THEN Res(StartBatch([tk EXCEPT !.uid = targetUid], <<targetUid>>, 0,
                             "", "nickOff"),
                  locks, FALSE)
         ELSE Res(Reply(tk, "noLock", t), locks, FALSE)
       ELSE Res(Reply(tk, "usage", t), locks, FALSE)


\* an emoji command that locks and sets the icon even without an argument
CmdEmoji_m(tk, args) ==
    LET t == tk.ev.thread
        emoji == Arg(args, 1)
    IN IF ~Has(locks, "emojis") THEN Res(Thrown(tk), locks, FALSE)
       ELSE Res(Await(tk, "cmdEmoji",
                      Call("changeThreadEmoji", t, NoUid, emoji)),
                [locks EXCEPT !["emojis"] = Put(@, t, emoji)], TRUE)

\* an emoji command that sets the icon and records no lock
CmdEmoji_nolock(tk, args) ==
    LET t == tk.ev.thread
        emoji == Arg(args, 1)
    IN IF emoji = "" THEN Res(Reply(tk, "usage", ""), locks, FALSE)
       ELSE IF ~Has(locks, "emojis") THEN Res(Thrown(tk), locks, FALSE)
       ELSE Res(Await(tk, "cmdEmoji",
                      Call("changeThreadEmoji", t, NoUid, emoji)),
                locks, TRUE)

CmdEmoji(tk, args) ==
    LET t == tk.ev.thread
        emoji == Arg(args, 1)
    IN IF emoji = "" THEN Res(Reply(tk, "usage", ""), locks, FALSE)
       ELSE IF ~Has(locks, "emojis") THEN Res(Thrown(tk), locks, FALSE)
       ELSE Res(Await(tk, "cmdEmoji",
                      Call("changeThreadEmoji", t, NoUid, emoji)),
                [locks EXCEPT !["emojis"] = Put(@, t, emoji)], TRUE)

CmdAntiOut(tk, args) ==
    LET t == tk.ev.thread
        sub == ToLower(Arg(args, 1))
    IN IF sub = "on" THEN
         IF ~Has(locks, "antiOut") THEN Res(Thrown(tk), locks, FALSE)
         ELSE Res(Reply(tk, "ack", t),
                  [locks EXCEPT !["antiOut"] = Put(@, t, TRUE)], TRUE)
       ELSE IF sub = "off" THEN
         IF ~Has(locks, "antiOut") THEN Res(Thrown(tk), locks, FALSE)
         ELSE Res(Reply(tk, "unlocked", t),
                  [locks EXCEPT !["antiOut"] = Del(@, t)], TRUE)
       ELSE Res(Reply(tk, "usage", t), locks, FALSE)

\* an adduser that records the added member as the thread's target
CmdAddUser_m(tk, args) ==
    LET t == tk.ev.thread
        toAdd == ParseUid(Arg(args, 1))
    IN IF toAdd = NoUid THEN Res(Reply(tk, "usage", t), locks, FALSE)
       ELSE Res(Await(tk, "cmdAdd", Call("addUserToGroup", t, toAdd, "")),
                Put(locks, "target", Put(EmptyObj, t, Arg(args, 1))), TRUE)

CmdAddUser(tk, args) ==
    LET t == tk.ev.thread
        toAdd == ParseUid(Arg(args, 1))
    IN IF toAdd = NoUid THEN Res(Reply(tk, "usage", t), locks, FALSE)
       ELSE Res(Await(tk, "cmdAdd", Call("addUserToGroup", t, toAdd, "")),
                locks, FALSE)

CmdGroupInfo(tk) ==
    Res(Await(tk, "info", Call("getThreadInfo", tk.ev.thread, NoUid, "")),
        locks, FALSE)

CmdTarget(tk, args) ==
    LET t == tk.ev.thread
        sub == ToLower(Arg(args, 1))
        target == Arg(args, 2)
    IN IF sub = "on" THEN
         IF target = "" THEN Res(Reply(tk, "usage", ""), locks, FALSE)
         ELSE LET cur == IF Has(locks, "target") THEN locks["target"]
                         ELSE EmptyObj
              IN Res(Reply(tk, "ack", t),
                     Put(locks, "target", Put(cur, t, target)), TRUE)
       ELSE IF sub = "off" THEN
         IF Has(locks, "target")
         THEN Res(Reply(tk, "unlocked", t),
                  [locks EXCEPT !["target"] = Del(@, t)], TRUE)
         ELSE Res(Reply(tk, "unlocked", t), locks, FALSE)
       ELSE Res(Reply(tk, "usage", t), locks, FALSE)

\* a gate that lets every sender through
Authorized_m(senderID) == TRUE

\* String(senderID) !== String(BOSS_UID)
Authorized(senderID) == senderID = BOSS_UID

\* lines 231-430: body check, BOSS_UID gate, parse, dispatch on the verb
Commands(tk) ==
    LET body == tk.ev.body
        parts == body
        rawCmd == RawCmd(parts)
        args == Tail(parts)
    IN IF body = <<>> THEN Res(tk, locks, FALSE)
       ELSE IF ~Authorized(tk.ev.sender) THEN Res(tk, locks, FALSE)
       ELSE CASE rawCmd = "groupname" -> CmdGroupName(tk, args)
              [] rawCmd = "nicknames" -> CmdNicknames(tk, args)
              [] rawCmd = "nickname" -> CmdNickname(tk, args)
              [] rawCmd = "emoji" -> CmdEmoji(tk, args)
              [] rawCmd = "antiout" -> CmdAntiOut(tk, args)
              [] rawCmd = "adduser" -> CmdAddUser(tk, args)
              [] rawCmd = "uid" -> Res(Reply(tk, "uid", tk.ev.thread),
                                       locks, FALSE)
              [] rawCmd = "groupinfo" -> CmdGroupInfo(tk)
              [] rawCmd = "target" -> CmdTarget(tk, args)
              [] rawCmd = "help" -> Res(Reply(tk, "help", tk.ev.thread),
                                        locks, FALSE)
              [] OTHER -> Res(tk, locks, FALSE)

\* the listenMqtt callback up to its first await
Handle(ev) ==
    LET tk == NewTask(ev)
        logType == ev.logType
    IN IF ev.type = "event" /\ logType = "log:thread-name"
       THEN OnThreadName(tk)
       ELSE IF ev.type = "event"
               /\ logType \in {"log:user-nickname", "log:user-nick"}
       THEN OnNickname(tk)
       ELSE IF ev.type = "event"
               /\ logType \in {"log:thread-icon", "log:thread-icon-change"}
       THEN OnThreadIcon(tk)
       ELSE IF ev.type = "event"
               /\ (logType \in RemoveTypes \/ IncludesRemove(logType))
       THEN OnRemove(tk)
       ELSE Commands(tk)


\* ---------------------------------------------------------------- actions
Upd(id, tk) == tasks' = [tasks EXCEPT ![id] = tk]

\* saveLocks(): fs.writeFileSync(LOCKS_PATH, JSON.stringify(locks))
Saved(lk) == <<lk>>

\* a locks.json whose text JSON.parse rejects
Unparsable == [x \in {"<unparsable>"} |-> EmptyObj]

\* startup: the defaults, replaced as a whole by the parsed file when it
\* exists and parses; a parse error keeps the defaults
Load(d) ==
    IF d = <<>> THEN DefaultLocks
    ELSE IF d[1] = Unparsable THEN DefaultLocks
    ELSE d[1]

\* apply the result of a synchronous segment of task id
Apply(id, r) ==
    /\ Upd(id, r.tk)
    /\ locks' = r.lk
    /\ disk' = IF r.saved THEN Saved(r.lk) ELSE disk
    /\ UNCHANGED <<alive, rosters, flaky, procs, kids>>

Running(id, pcs) == alive /\ id \in 1..Len(tasks) /\ tasks[id].pc \in pcs

\* an occurrence arrives: the handler runs up to its first await
Deliver(ev, max) ==
    /\ alive
    /\ Len(tasks) < max
    /\ LET r == Handle(ev)
       IN /\ tasks' = Append(tasks, r.tk)
          /\ locks' = r.lk
          /\ disk' = IF r.saved THEN Saved(r.lk) ELSE disk
    /\ UNCHANGED <<alive, rosters, flaky, procs, kids>>

\* a revert that is issued again after a rejection, up to Retries times
RevertSettles_m(id) ==
    /\ Running(id, {"revertTitle", "revertEmoji"})
    /\ \E r \in {"ok", "err"} :
         IF r = "err" /\ Len(tasks[id].trace) < Retries
         THEN Apply(id, Res(Await(Settled(tasks[id], r), tasks[id].pc,
                                  tasks[id].trace[1]), locks, FALSE))
         ELSE Apply(id, Res([Settled(tasks[id], r) EXCEPT !.pc = "done"],
                            locks, FALSE))

\* await api.setTitle / api.changeThreadEmoji of a reactive revert settles;
\* a rejection is caught and logged
RevertSettles(id) ==
    /\ Running(id, {"revertTitle", "revertEmoji"})
    /\ \E r \in {"ok", "err"} :
         Apply(id, Res([Settled(tasks[id], r) EXCEPT !.pc = "done"],
                       locks, FALSE))

\* an awaited notification settles; try { ... } catch {}
NotifySettles(id) ==
    /\ Running(id, {"notify", "antiFailMsg"})
    /\ \E r \in {"ok", "err"} :
         Apply(id, Res([Settled(tasks[id], r) EXCEPT !.pc = "done"],
                       locks, FALSE))

\* await api.addUserToGroup(leftUID, threadID) of anti-out settles
AntiAddSettles(id) ==
    /\ Running(id, {"antiAdd"})
    /\ LET t == tasks[id].ev.thread
       IN \/ Apply(id, Res(Await(Settled(tasks[id], "ok"), "antiMsg",
                                 Msg("antiAck", t)), locks, FALSE))
          \/ Apply(id, Res(Await(Settled(tasks[id], "err"), "antiFailMsg",
                                 Msg("antiFail", t)), locks, FALSE))

\* await api.sendMessage("Anti-Out: Added back") settles; its rejection
\* lands in the same catch as a failed add
AntiMsgSettles(id) ==
    /\ Running(id, {"antiMsg"})
    /\ \/ Apply(id, Res([Settled(tasks[id], "ok") EXCEPT !.pc = "done"],
                        locks, FALSE))
       \/ Apply(id, Res(Await(Settled(tasks[id], "err"), "antiFailMsg",
                              Msg("antiFail", tasks[id].ev.thread)),
                        locks, FALSE))

\* the immediate setTitle / changeThreadEmoji of a command settles, then
\* the acknowledgement is returned
CmdCallSettles(id) ==
    /\ Running(id, {"cmdTitle", "cmdEmoji"})
    /\ \E r \in {"ok", "err"} :
         Apply(id, Res(Reply(Settled(tasks[id], r), "ack",
                             tasks[id].ev.thread), locks, FALSE))

\* adduser: await api.addUserToGroup settles
CmdAddSettles(id) ==
    /\ Running(id, {"cmdAdd"})
    /\ \/ Apply(id, Res(Reply(Settled(tasks[id], "ok"), "ack",
                              tasks[id].ev.thread), locks, FALSE))
       \/ Apply(id, Res(Reply(Settled(tasks[id], "err"), "addFail", ""),
                        locks, FALSE))

\* a report that looks at the maps of the store, not at the thread's entries
Active_m(t) ==
    (IF Has(locks, "groupNames") THEN {"Name Lock"} ELSE {})
    \cup (IF Has(locks, "nicknames") THEN {"Nickname Lock"} ELSE {})
    \cup (IF Has(locks, "emojis") THEN {"Emoji Lock"} ELSE {})
    \cup (IF Has(locks, "antiOut") THEN {"Anti-Out"} ELSE {})

\* groupinfo: the active locks of the thread
Active(t) ==
    (IF Truthy(Get("groupNames", t)) THEN {"Name Lock"} ELSE {})
    \cup (IF Has(locks["nicknames"], t) THEN {"Nickname Lock"} ELSE {})
    \cup (IF Truthy(Get("emojis", t)) THEN {"Emoji Lock"} ELSE {})
    \cup (IF AntiOn(t) THEN {"Anti-Out"} ELSE {})

InfoSettles(id) ==
    /\ Running(id, {"info"})
    /\ LET t == tasks[id].ev.thread
           ok == Settled(tasks[id], "ok")
       IN \/ IF Fields \subseteq DOMAIN locks
             THEN Apply(id, Res([ok EXCEPT !.pc = "reply",
                                    !.trace = Append(@, InfoMsg(t, Active(t)))],
                                locks, FALSE))
             ELSE Apply(id, Res(Reply(ok, "infoFail", ""), locks, FALSE))
          \/ Apply(id, Res(Reply(Settled(tasks[id], "err"), "infoFail", ""),
                           locks, FALSE))

\* the returned reply resolves
ReplyOk(id) ==
    /\ Running(id, {"reply"})
    /\ Apply(id, Res([Settled(tasks[id], "ok") EXCEPT !.pc = "done"],
                     locks, FALSE))

\* the returned reply rejects: the rejection is not caught by the handler's
\* try (the promise was returned, not awaited) and is an unhandled rejection
\* of the listenMqtt callback, which terminates the process or not
ReplyRejects(id) ==
    /\ Running(id, {"reply"})
    /\ Upd(id, [Settled(tasks[id], "err") EXCEPT !.pc = "done",
                                                 !.escaped = TRUE])
    /\ alive' \in BOOLEAN
    /\ UNCHANGED <<locks, disk, rosters, flaky, procs, kids>>


\* a `nickname off` that drops the nickname locks of the whole thread
Resume_m(id, tk) ==
    LET t == tk.ev.thread
    IN CASE tk.cont = "revert" ->
              Apply(id, Res(Await(tk, "notify", Msg("notify", t)),
                            locks, FALSE))
         [] tk.cont \in {"bulkOn", "bulkOff"} ->
              Apply(id, Res([tk EXCEPT !.pc = "pause",
                                       !.trace = Append(@, Sleep(BatchPause))],
                            locks, FALSE))
         [] tk.cont = "nickOn" ->
              IF Has(locks["nicknames"], t)
              THEN Apply(id, Res(Reply(tk, "ack", t),
                                 [locks EXCEPT !["nicknames"][t] =
                                      Put(@, tk.uid, tk.val)], TRUE))
              ELSE Apply(id, Res(Thrown(tk), locks, FALSE))
         [] tk.cont = "nickOff" ->
              IF Has(locks["nicknames"], t)
              THEN Apply(id, Res(Reply(tk, "unlocked", t),
                                 [locks EXCEPT !["nicknames"][t] = EmptyObj],
                                 TRUE))
              ELSE Apply(id, Res(Thrown(tk), locks, FALSE))

\* the code after `await retryChangeNick(...)` / `await Promise.all(...)`,
\* run once every call of the batch has returned
Resume(id, tk) ==
    LET t == tk.ev.thread
    IN CASE tk.cont = "revert" ->
              Apply(id, Res(Await(tk, "notify", Msg("notify", t)),
                            locks, FALSE))
         [] tk.cont \in {"bulkOn", "bulkOff"} ->
              Apply(id, Res([tk EXCEPT !.pc = "pause",
                                       !.trace = Append(@, Sleep(BatchPause))],
                            locks, FALSE))
         [] tk.cont = "nickOn" ->
              IF Has(locks["nicknames"], t)
              THEN Apply(id, Res(Reply(tk, "ack", t),
                                 [locks EXCEPT !["nicknames"][t] =
                                      Put(@, tk.uid, tk.val)], TRUE))
              ELSE Apply(id, Res(Thrown(tk), locks, FALSE))
         [] tk.cont = "nickOff" ->
              IF Has(locks["nicknames"], t)
              THEN Apply(id, Res(Reply(tk, "unlocked", t),
                                 [locks EXCEPT !["nicknames"][t] =
                                      Del(@, tk.uid)], TRUE))
              ELSE Apply(id, Res(Thrown(tk), locks, FALSE))

Step(id, tk) ==
    IF BatchSettled(tk) THEN Resume(id, tk)
    ELSE Apply(id, Res(tk, locks, FALSE))

\* api.changeNickname calls back without an error: retryChangeNick returns
\* true
NickOk(id, u) ==
    /\ Running(id, {"nick"})
    /\ u \in DOMAIN tasks[id].batch
    /\ tasks[id].batch[u].st = "inflight"
    /\ Step(id, [AttemptSettled(tasks[id], u, "ok")
                   EXCEPT !.batch[u].st = "ok"])

\* api.changeNickname calls back with an error (or throws): the helper
\* sleeps 250 + i * 150
NickErr(id, u) ==
    /\ Running(id, {"nick"})
    /\ u \in DOMAIN tasks[id].batch
    /\ u \in flaky
    /\ tasks[id].batch[u].st = "inflight"
    /\ Apply(id, Res([AttemptSettled(tasks[id], u, "err")
                        EXCEPT !.batch[u].st = "sleeping",
                               !.trace = Append(@, RetrySleep(u,
                                             tasks[id].batch[u].i))],
                     locks, FALSE))

\* a helper that throws out of the batch after its last failed attempt
NickWake_m(id, u) ==
    /\ Running(id, {"nick"})
    /\ u \in DOMAIN tasks[id].batch
    /\ tasks[id].batch[u].st = "sleeping"
    /\ LET tk == tasks[id]
           i == tk.batch[u].i
       IN IF i + 1 < Retries
          THEN Apply(id, Res([tk EXCEPT !.batch[u] =
                                            [i |-> i + 1, st |-> "inflight"],
                                        !.trace = Append(@,
                                            Attempt(tk.ev.thread, u, tk.val,
                                                    i + 1))],
                             locks, FALSE))
          ELSE Apply(id, Res(Thrown([tk EXCEPT !.batch[u].st = "fail"]),
                             locks, FALSE))

\* a helper that tries once more after its last failed attempt
NickWake_again(id, u) ==
    /\ Running(id, {"nick"})
    /\ u \in DOMAIN tasks[id].batch
    /\ tasks[id].batch[u].st = "sleeping"
    /\ LET tk == tasks[id]
           i == tk.batch[u].i
       IN IF i < Retries
          THEN Apply(id, Res([tk EXCEPT !.batch[u] =
                                            [i |-> i + 1, st |-> "inflight"],
                                        !.trace = Append(@,
                                            Attempt(tk.ev.thread, u, tk.val,
                                                    i + 1))],
                             locks, FALSE))
          ELSE Step(id, [tk EXCEPT !.batch[u].st = "fail"])

\* the backoff sleep ends: next attempt, or return false after the last one
NickWake(id, u) ==
    /\ Running(id, {"nick"})
    /\ u \in DOMAIN tasks[id].batch
    /\ tasks[id].batch[u].st = "sleeping"
    /\ LET tk == tasks[id]
           i == tk.batch[u].i
       IN IF i + 1 < Retries
          THEN Apply(id, Res([tk EXCEPT !.batch[u] =
                                            [i |-> i + 1, st |-> "inflight"],
                                        !.trace = Append(@,
                                            Attempt(tk.ev.thread, u, tk.val,
                                                    i + 1))],
                             locks, FALSE))
          ELSE Step(id, [tk EXCEPT !.batch[u].st = "fail"])

\* a `nicknames off` that keeps the thread's locks after clearing the names
PauseDone_m(id) ==
    /\ Running(id, {"pause"})
    /\ LET tk == tasks[id]
           t == tk.ev.thread
           i == tk.idx + BatchSize
       IN IF i < Len(tk.list)
          THEN Apply(id, Res(StartBatch(tk, tk.list, i, tk.val, tk.cont),
                             locks, FALSE))
          ELSE IF tk.cont = "bulkOn"
          THEN Apply(id, Res(Await(tk, "fetch2",
                                   Call("getThreadInfo", t, NoUid, "")),
                             locks, FALSE))
          ELSE Apply(id, Res(Reply(tk, "unlocked", t), locks, TRUE))

\* the inter-batch sleep(350) ends: next batch, or the code after the loop
PauseDone(id) ==
    /\ Running(id, {"pause"})
    /\ LET tk == tasks[id]
           t == tk.ev.thread
           i == tk.idx + BatchSize
       IN IF i < Len(tk.list)
          THEN Apply(id, Res(StartBatch(tk, tk.list, i, tk.val, tk.cont),
                             locks, FALSE))
          ELSE IF tk.cont = "bulkOn"
          THEN Apply(id, Res(Await(tk, "fetch2",
                                   Call("getThreadInfo", t, NoUid, "")),
                             locks, FALSE))
          ELSE Apply(id, Res(Reply(tk, "unlocked", t),
                             [locks EXCEPT !["nicknames"] = Del(@, t)], TRUE))

\* enforceNickLockForThread: await api.getThreadInfo settles
Fetch1Settles(id) ==
    /\ Running(id, {"fetch1"})
    /\ LET t == tasks[id].ev.thread
           ok == Settled(tasks[id], "ok")
           again(tk) == Await(tk, "fetch2", Call("getThreadInfo", t, NoUid, ""))
       IN \/ \E members \in rosters[t] :
               IF members = <<>>
               THEN Apply(id, Res(again(ok), locks, FALSE))
               ELSE Apply(id, Res(StartBatch(ok, members, 0, ok.val, "bulkOn"),
                                  locks, FALSE))
          \/ Apply(id, Res(again(Settled(tasks[id], "err")), locks, FALSE))

RECURSIVE PutAll(_, _, _)
PutAll(m, us, v) ==
    IF us = <<>> THEN m ELSE PutAll(Put(m, us[1], v), Tail(us), v)

\* "Save mapping for all current members": the second api.getThreadInfo
\* settles, then the acknowledgement is returned
Fetch2Settles(id) ==
    /\ Running(id, {"fetch2"})
    /\ LET t == tasks[id].ev.thread
           ok == Settled(tasks[id], "ok")
       IN \/ Apply(id, Res(Reply(Settled(tasks[id], "err"), "ack", t),
                           locks, FALSE))
          \/ \E members \in rosters[t] :
               IF members = <<>> \/ Has(locks["nicknames"], t)
               THEN Apply(id, Res(Reply([ok EXCEPT !.list2 = members],
                                        "ack", t),
                                  IF members = <<>> THEN locks
                                  ELSE [locks EXCEPT !["nicknames"][t] =
                                           PutAll(@, members, ok.val)],
                                  TRUE))
               ELSE Apply(id, Res(Reply(ok, "ack", t), locks, FALSE))

\* setInterval(saveLocks, 60 * 1000)
TimerSave ==
    /\ alive
    /\ disk' = Saved(locks)
    /\ UNCHANGED <<locks, tasks, alive, rosters, flaky, procs, kids>>


\* the engine run on its own: no panel, no child processes
NoPanel == procs = EmptyObj /\ kids = <<>>

\* ------------------------------------------------- occurrences delivered
Rename(t, v) == Ev("event", "log:thread-name", t, 3, <<>>, NoUid, v)
NickChange(lt, t, u, v) == Ev("event", lt, t, 3, <<>>, u, v)
IconChange(lt, t, v) == Ev("event", lt, t, 3, <<>>, NoUid, v)
Removed(lt, t, u) == Ev("event", lt, t, 3, <<>>, u, "")
Message(t, sender, body) == Ev("message", "", t, sender, body, NoUid, "")

Events ==
    {Rename("t1", v) : v \in Values \cup {""}}
    \cup {NickChange("log:user-nickname", "t1", 3, v) : v \in Values \cup {""}}
    \cup {NickChange("log:user-nick", "t1", 2, "b"),
          NickChange("log:user-nickname", "t1", NoUid, "a"),
          NickChange("log:user-nickname", "t2", 3, "a")}
    \cup {IconChange("log:thread-icon", "t1", v) : v \in Values \cup {""}}
    \cup {IconChange("log:thread-icon-change", "t1", "b")}
    \cup {Removed("log:unsubscribe", "t1", u) : u \in {NoUid, SelfId, 3}}
    \cup {Removed("log:remove-admin", "t1", 3),
          Removed("log:unsubscribe", "t2", 3),
          Rename("t2", "a"),
          Ev("event", "log:subscribe", "t1", 3, <<>>, 3, ""),
          Ev("event", "log:subscribe", "t1", BOSS_UID, <<"/uid">>, 3, "")}

Bodies ==
    {<<"groupname", "on", v>> : v \in Values}
    \cup {<<"nicknames", "on", "b">>}
    \cup {<<"nickname", "on", "3", v>> : v \in Values}
    \cup {<<"emoji", v>> : v \in Values}
    \cup {<<"/groupname", "ON", "a">>, <<"groupname", "on">>,
          <<"groupname", "off">>, <<"GroupName">>,
          <<"nicknames", "on">>, <<"nicknames", "off">>, <<"nicknames">>,
          <<"nickname", "on", "2", "a">>, <<"nickname", "on", "3">>,
          <<"nickname", "off", "3">>, <<"nickname", "off">>, <<"nickname">>,
          <<"emoji">>,
          <<"antiout", "on">>, <<"antiout", "off">>, <<"antiout">>,
          <<"adduser", "3">>, <<"adduser">>,
          <<"uid">>, <<"groupinfo">>, <<"/Help">>,
          <<"target", "on", "3">>, <<"target", "on">>, <<"target", "off">>,
          <<"target">>,
          <<"hello">>, <<>>}

Messages ==
    {Message("t1", BOSS_UID, b) : b \in Bodies}
    \cup {Message("t2", BOSS_UID, b) :
            b \in {<<"groupname", "on", "b">>, <<"nickname", "on", "3", "b">>,
                   <<"antiout", "on">>, <<"emoji", "b">>, <<"groupinfo">>}}
    \cup {Message("t1", 3, b) :
            b \in {<<"groupname", "on", "b">>, <<"nicknames", "off">>,
                   <<"/uid">>, <<"antiout", "on">>}}

\* member lists api.getThreadInfo may return
SmallRosters == {<<>>, <<3>>, <<2, 3>>}

RECURSIVE UpTo(_)
UpTo(n) == IF n = 0 THEN <<>> ELSE Append(UpTo(n - 1), n)

\* ------------------------------------------------------- specifications
Init ==
    /\ disk = <<>>
    /\ locks = Load(disk)
    /\ tasks = <<>>
    /\ alive = TRUE
    /\ rosters = [t \in Threads |-> SmallRosters]
    /\ flaky = {3}
    /\ NoPanel

DeliverEvent == \E ev \in Events : Deliver(ev, MaxOcc)
DeliverMessage == \E ev \in Messages : Deliver(ev, MaxOcc)

Slots == 1..MaxOcc

Next ==
    \/ DeliverEvent
    \/ DeliverMessage
    \/ \E id \in Slots : RevertSettles(id)
    \/ \E id \in Slots : NotifySettles(id)
    \/ \E id \in Slots : AntiAddSettles(id)
    \/ \E id \in Slots : AntiMsgSettles(id)
    \/ \E id \in Slots : CmdCallSettles(id)
    \/ \E id \in Slots : CmdAddSettles(id)
    \/ \E id \in Slots : InfoSettles(id)
    \/ \E id \in Slots : ReplyOk(id)
    \/ \E id \in Slots : ReplyRejects(id)
    \/ \E id \in Slots : Fetch1Settles(id)
    \/ \E id \in Slots : Fetch2Settles(id)
    \/ \E id \in Slots : \E u \in 1..MaxBulk + 1 : NickOk(id, u)
    \/ \E id \in Slots : \E u \in 1..MaxBulk + 1 : NickErr(id, u)
    \/ \E id \in Slots : \E u \in 1..MaxBulk + 1 : NickWake(id, u)
    \/ \E id \in Slots : PauseDone(id)
    \/ TimerSave

Spec == Init /\ [][Next]_vars


\* bulk enforcement over a thread of more than BatchSize members: one
\* `nicknames on b` of the privileged identity, member 1's calls may fail
BulkCommand == Message("t1", BOSS_UID, <<"nicknames", "on", "b">>)

InitBulk ==
    /\ locks = DefaultLocks
    /\ disk = <<>>
    /\ tasks = <<>>
    /\ alive = TRUE
    /\ rosters = [t \in Threads |-> {UpTo(MaxBulk)}]
    /\ flaky = {1}
    /\ NoPanel

DeliverBulk == Deliver(BulkCommand, 1)

NextBulk ==
    \/ DeliverBulk
    \/ \E id \in Slots : ReplyOk(id)
    \/ \E id \in Slots : ReplyRejects(id)
    \/ \E id \in Slots : Fetch1Settles(id)
    \/ \E id \in Slots : Fetch2Settles(id)
    \/ \E id \in Slots : \E u \in 1..MaxBulk + 1 : NickOk(id, u)
    \/ \E id \in Slots : \E u \in 1..MaxBulk + 1 : NickErr(id, u)
    \/ \E id \in Slots : \E u \in 1..MaxBulk + 1 : NickWake(id, u)
    \/ \E id \in Slots : PauseDone(id)

SpecBulk == InitBulk /\ [][NextBulk]_vars


\* startup from a locks.json left by an earlier run (or by hand), then at
\* most MaxRestoreOcc occurrences in thread t1
FullSnapshot ==
    [groupNames |-> Put(EmptyObj, "t1", "a"),
     nicknames |-> Put(EmptyObj, "t1", Put(Put(EmptyObj, 2, "a"), 3, "a")),
     emojis |-> Put(EmptyObj, "t1", "a"),
     antiOut |-> Put(EmptyObj, "t1", TRUE)]

\* absent, unparsable, "{}", an object with one of the maps, the four empty
\* maps, a snapshot with every lock of t1 set
Snapshots ==
    {<<>>, <<Unparsable>>, <<EmptyObj>>,
     <<[f \in {"groupNames"} |-> EmptyObj]>>,
     <<DefaultLocks>>, <<FullSnapshot>>}

RestoreOccurrences ==
    {Message("t1", BOSS_UID, b) :
        b \in {<<"groupname", "on", "b">>, <<"groupname", "off">>,
               <<"nicknames", "off">>, <<"nickname", "on", "3", "b">>,
               <<"nickname", "off", "3">>, <<"emoji", "b">>,
               <<"antiout", "on">>, <<"antiout", "off">>,
               <<"adduser", "3">>, <<"groupinfo">>, <<"uid">>, <<"/Help">>,
               <<"target", "on", "3">>, <<"target", "off">>}}
    \cup {Rename("t1", "b"), NickChange("log:user-nickname", "t1", 3, "b"),
          NickChange("log:user-nickname", "t1", 3, ""),
          IconChange("log:thread-icon", "t1", "b"),
          Removed("log:unsubscribe", "t1", 3)}

InitRestore ==
    /\ disk \in Snapshots
    /\ locks = Load(disk)
    /\ tasks = <<>>
    /\ alive = TRUE
    /\ rosters = [t \in Threads |-> SmallRosters]
    /\ flaky = {3}
    /\ NoPanel

DeliverRestored == \E ev \in RestoreOccurrences : Deliver(ev, MaxRestoreOcc)

NextRestore ==
    \/ DeliverRestored
    \/ \E id \in Slots : RevertSettles(id)
    \/ \E id \in Slots : NotifySettles(id)
    \/ \E id \in Slots : AntiAddSettles(id)
    \/ \E id \in Slots : AntiMsgSettles(id)
    \/ \E id \in Slots : CmdCallSettles(id)
    \/ \E id \in Slots : CmdAddSettles(id)
    \/ \E id \in Slots : InfoSettles(id)
    \/ \E id \in Slots : ReplyOk(id)
    \/ \E id \in Slots : ReplyRejects(id)
    \/ \E id \in Slots : \E u \in 1..MaxBulk + 1 : NickOk(id, u)
    \/ \E id \in Slots : \E u \in 1..MaxBulk + 1 : NickErr(id, u)
    \/ \E id \in Slots : \E u \in 1..MaxBulk + 1 : NickWake(id, u)
    \/ \E id \in Slots : PauseDone(id)

SpecRestore == InitRestore /\ [][NextRestore]_vars


\* two threads of one engine whose locks are the same and whose stored
\* target differs; each occurrence is delivered to t1 and then to t2
TwinLocks ==
    [f \in Fields |-> Put(Put(EmptyObj, "t1", FullSnapshot[f]["t1"]),
                          "t2", FullSnapshot[f]["t1"])]
TwinTargets ==
    {Put(EmptyObj, "t1", "3"), Put(Put(EmptyObj, "t1", "3"), "t2", "2")}

WithThread(ev, t) == [ev EXCEPT !.thread = t]

InitTwin ==
    /\ \E tg \in TwinTargets : disk = Saved(Put(TwinLocks, "target", tg))
    /\ locks = Load(disk)
    /\ tasks = <<>>
    /\ alive = TRUE
    /\ rosters = [t \in Threads |-> SmallRosters]
    /\ flaky = {3}
    /\ NoPanel

DeliverTwin ==
    IF Len(tasks) % 2 = 0
    THEN \E ev \in RestoreOccurrences : Deliver(ev, 2 * MaxTwinOcc)
    ELSE Deliver(WithThread(tasks[Len(tasks)].ev, "t2"), 2 * MaxTwinOcc)

NextTwin ==
    \/ DeliverTwin
    \/ \E id \in 1..2 * MaxTwinOcc : RevertSettles(id)
    \/ \E id \in 1..2 * MaxTwinOcc : NotifySettles(id)
    \/ \E id \in 1..2 * MaxTwinOcc : AntiAddSettles(id)
    \/ \E id \in 1..2 * MaxTwinOcc : AntiMsgSettles(id)
    \/ \E id \in 1..2 * MaxTwinOcc : CmdCallSettles(id)
    \/ \E id \in 1..2 * MaxTwinOcc : CmdAddSettles(id)
    \/ \E id \in 1..2 * MaxTwinOcc : InfoSettles(id)
    \/ \E id \in 1..2 * MaxTwinOcc : ReplyOk(id)
    \/ \E id \in 1..2 * MaxTwinOcc : ReplyRejects(id)
    \/ \E id \in 1..2 * MaxTwinOcc : \E u \in 1..MaxBulk + 1 : NickOk(id, u)
    \/ \E id \in 1..2 * MaxTwinOcc : \E u \in 1..MaxBulk + 1 : NickErr(id, u)
    \/ \E id \in 1..2 * MaxTwinOcc : \E u \in 1..MaxBulk + 1 : NickWake(id, u)
    \/ \E id \in 1..2 * MaxTwinOcc : PauseDone(id)

SpecTwin == InitTwin /\ [][NextTwin]_vars


\* a stable lock with selfListen: every lock of t1 is set and no command
\* arrives; other participants change the title, a nickname and the icon at
\* most MaxExternal times, and the platform delivers back to the engine the
\* occurrence of each corrective call that succeeded
ExternalChanges ==
    {Rename("t1", "b"), NickChange("log:user-nickname", "t1", 3, "b"),
     IconChange("log:thread-icon", "t1", "b")}

\* the calls whose effect comes back as an occurrence: the three corrective
\* calls and the notification posted after a nickname revert
Echoing == {"setTitle", "changeNickname", "changeThreadEmoji", "sendMessage"}

\* the occurrence the platform emits for call c, authored by the engine
EchoOf(c) ==
    IF c.op = "sendMessage"
    THEN Message(c.thread, SelfId, <<"[lock]", "Nick", "reverted", "for">>)
    ELSE Ev("event",
            CASE c.op = "setTitle" -> "log:thread-name"
              [] c.op = "changeNickname" -> "log:user-nickname"
              [] OTHER -> "log:thread-icon",
            c.thread, SelfId, <<>>, c.uid, c.val)

\* the corrective calls that took effect on the platform
OkCalls ==
    {<<id, k>> \in (1..Len(tasks)) \X (1..3 * Retries) :
        /\ k <= Len(tasks[id].trace)
        /\ tasks[id].trace[k].op \in Echoing
        /\ tasks[id].trace[k].res = "ok"}
Emitted(e) ==
    Cardinality({c \in OkCalls : EchoOf(tasks[c[1]].trace[c[2]]) = e})
Echoed(e) == Cardinality({j \in 1..Len(tasks) : tasks[j].ev = e})
External == {j \in 1..Len(tasks) : tasks[j].ev.sender # SelfId}

InitEcho ==
    /\ disk = <<FullSnapshot>>
    /\ locks = Load(disk)
    /\ tasks = <<>>
    /\ alive = TRUE
    /\ rosters = [t \in Threads |-> SmallRosters]
    /\ flaky = {3}
    /\ NoPanel

DeliverExternal ==
    /\ Cardinality(External) < MaxExternal
    /\ \E ev \in ExternalChanges : Deliver(ev, MaxEchoTasks)

\* selfListen: an occurrence of the engine's own successful call arrives
Echo ==
    \E c \in OkCalls :
        LET e == EchoOf(tasks[c[1]].trace[c[2]])
        IN Echoed(e) < Emitted(e) /\ Deliver(e, MaxEchoTasks)

EchoSlots == 1..MaxEchoTasks

NextEcho ==
    \/ DeliverExternal
    \/ Echo
    \/ \E id \in EchoSlots : RevertSettles(id)
    \/ \E id \in EchoSlots : NotifySettles(id)
    \/ \E id \in EchoSlots : \E u \in 1..MaxBulk + 1 : NickOk(id, u)
    \/ \E id \in EchoSlots : \E u \in 1..MaxBulk + 1 : NickErr(id, u)
    \/ \E id \in EchoSlots : \E u \in 1..MaxBulk + 1 : NickWake(id, u)
    \/ TimerSave

\* the event loop runs every continuation that is ready, and every call in
\* flight is answered
SpecEcho == InitEcho /\ [][NextEcho]_vars /\ WF_vars(NextEcho)


\* ---------------------------------------------- the panel (src/index.js)
Admins == {2, 4}

\* fork(...): a new engine process for admin
Child(admin) == [admin |-> admin, st |-> "running"]

\* child.kill(): the signal is sent, the exit event comes later
Kill(ks, k) ==
    IF ks[k].st = "running" THEN [ks EXCEPT ![k].st = "killed"] ELSE ks

EngineIdle ==
    UNCHANGED <<locks, disk, tasks, alive, rosters, flaky>>

\* POST /start-bot with appstate and admin: kill the tracked child if there
\* is one, fork, register the exit handler, track the new child
StartBot(admin) ==
    /\ Len(kids) < MaxKids
    /\ LET killed == IF Has(procs, admin) THEN Kill(kids, procs[admin])
                     ELSE kids
       IN /\ kids' = Append(killed, Child(admin))
          /\ procs' = Put(procs, admin, Len(kids) + 1)
    /\ EngineIdle

\* GET /stop-bot?uid=admin
StopBot(admin) ==
    /\ Has(procs, admin)
    /\ kids' = Kill(kids, procs[admin])
    /\ procs' = Del(procs, admin)
    /\ EngineIdle

\* child.on("exit"): the process of child k has ended (killed, crashed or
\* exited by itself); the handler deletes procs[admin]
ChildExit(k) ==
    /\ k \in 1..Len(kids)
    /\ kids[k].st \in {"running", "killed"}
    /\ kids' = [kids EXCEPT ![k].st = "exited"]
    /\ procs' = Del(procs, kids[k].admin)
    /\ EngineIdle

InitPanel ==
    /\ procs = EmptyObj
    /\ kids = <<>>
    /\ disk = <<>>
    /\ locks = Load(disk)
    /\ tasks = <<>>
    /\ alive = TRUE
    /\ rosters = [t \in Threads |-> SmallRosters]
    /\ flaky = {}

NextPanel ==
    \/ \E admin \in Admins : StartBot(admin)
    \/ \E admin \in Admins : StopBot(admin)
    \/ \E k \in 1..MaxKids : ChildExit(k)

SpecPanel == InitPanel /\ [][NextPanel]_vars


\* ================================================================ claims
\* the requests of one kind a handler has issued, in order
Sel(tk, op) == SelectSeq(tk.trace, LAMBDA c : c.op = op)
Reqs(tk, op) ==
    [k \in 1..Len(Sel(tk, op)) |->
        <<Sel(tk, op)[k].thread, Sel(tk, op)[k].uid, Sel(tk, op)[k].val>>]
\* the corrective calls of retryChangeNick (first attempts), in order
NickCalls(tk) ==
    LET s == SelectSeq(tk.trace,
                       LAMBDA c : c.op = "changeNickname" /\ c.att = 0)
    IN [k \in 1..Len(s) |-> <<s[k].thread, s[k].uid, s[k].val>>]

IsRename(ev) == ev.type = "event" /\ ev.logType = "log:thread-name"
IsNickChange(ev) ==
    ev.type = "event" /\ ev.logType \in {"log:user-nickname", "log:user-nick"}
IsIconChange(ev) ==
    ev.type = "event"
    /\ ev.logType \in {"log:thread-icon", "log:thread-icon-change"}
IsRemoved(ev) ==
    ev.type = "event"
    /\ (ev.logType \in RemoveTypes \/ IncludesRemove(ev.logType))

\* C1: a handler of a rename occurrence for a thread T that found a title
\* lock V different from the new name has issued exactly one rename request,
\* setTitle(V, T), and no other rename request.
C1_RenameReverted ==
    \A id \in 1..Len(tasks) :
        LET ev == tasks[id].ev
            V == GetIn(tasks[id].seen, "groupNames", ev.thread)
        IN (IsRename(ev) /\ Truthy(V) /\ ev.val # V)
           => Reqs(tasks[id], "setTitle") = << <<ev.thread, NoUid, V>> >>

C1_Witness ==
    \E id \in 1..Len(tasks) :
        /\ IsRename(tasks[id].ev)
        /\ tasks[id].pc = "done"
        /\ Len(Reqs(tasks[id], "setTitle")) = 1
        /\ tasks[id].ev.val \in Values
        /\ Reqs(tasks[id], "setTitle")[1][3] # tasks[id].ev.val

\* C2: a handler of a nickname-change occurrence for member U of thread T
\* that found a nickname lock N different from the new nickname has made
\* exactly one corrective retryChangeNick call, for (T, U), and every attempt
\* of it carries N.
C2_NickReverted ==
    \A id \in 1..Len(tasks) :
        LET ev == tasks[id].ev
            N == NickIn(tasks[id].seen, ev.thread, ev.uid)
        IN (IsNickChange(ev) /\ Truthy(N) /\ ev.val # N)
           => /\ NickCalls(tasks[id]) = << <<ev.thread, ev.uid, N>> >>
              /\ \A k \in 1..Len(Reqs(tasks[id], "changeNickname")) :
                    Reqs(tasks[id], "changeNickname")[k]
                      = <<ev.thread, ev.uid, N>>

C2_Witness ==
    \E id \in 1..Len(tasks) :
        /\ IsNickChange(tasks[id].ev)
        /\ tasks[id].pc = "done"
        /\ Len(NickCalls(tasks[id])) = 1
        /\ Len(Reqs(tasks[id], "changeNickname")) = Retries
        /\ NickCalls(tasks[id])[1][3] # tasks[id].ev.val

\* C3: a message whose sender is not the privileged identity, whatever its
\* text, leaves the store and the snapshot unchanged when it is handled, and
\* its handler never issues an external call.
NonBoss(ev) == ev.type = "message" /\ ev.sender # BOSS_UID
C3_NonBossInert ==
    [][\A id \in 1..Len(tasks') :
          NonBoss(tasks'[id].ev)
          => /\ tasks'[id].trace = <<>>
             /\ tasks'[id].pc = "done"
             /\ (id > Len(tasks) => locks' = locks /\ disk' = disk)
      ]_vars

C3_Witness ==
    \E id \in 1..Len(tasks) :
        /\ NonBoss(tasks[id].ev)
        /\ tasks[id].ev.body = <<"groupname", "on", "b">>
        /\ tasks[id].pc = "done"


\* ---- bulk enforcement, as seen in the trace of a `nicknames on` handler
Pos(list, u) == CHOOSE k \in 1..Len(list) : list[k] = u
BatchNo(list, u) == (Pos(list, u) - 1) \div 15
NickEntries(tk) ==
    {k \in 1..Len(tk.trace) : tk.trace[k].op = "changeNickname"}
Entries(tk, u) == {k \in NickEntries(tk) : tk.trace[k].uid = u}
\* the corrective call for u has returned: one attempt succeeded, or three
\* failed and the last backoff is over
CallSettled(tk, u) ==
    \/ \E k \in Entries(tk, u) : tk.trace[k].res = "ok"
    \/ /\ Cardinality({k \in Entries(tk, u) : tk.trace[k].res = "err"}) = 3
       /\ ~(u \in DOMAIN tk.batch /\ tk.batch[u].st = "sleeping")
\* corrective calls that have not returned: an attempt is pending, or the
\* helper sleeps between two attempts
InFlight(tk) ==
    Cardinality({k \in NickEntries(tk) : tk.trace[k].res = "pending"})
    + Cardinality({u \in DOMAIN tk.batch : tk.batch[u].st = "sleeping"})
Pauses(tk) ==
    {k \in 1..Len(tk.trace) :
        tk.trace[k].op = "sleep" /\ tk.trace[k].uid = NoUid
        /\ tk.trace[k].ms = 350}

\* C4: in a bulk enforcement over K members at most 15 corrective calls are
\* in flight; members are called once each, in whole batches of 15; a call of
\* a later batch is issued only after every call of the earlier batches has
\* returned (retries included) and a 350 ms pause was taken in between; and
\* when the enforcement is over every member was called, in ceil(K/15)
\* batches.
C4_BatchesOfFifteen ==
    \A id \in 1..Len(tasks) :
        LET tk == tasks[id]
            calls == NickCalls(tk)
            K == Len(tk.list)
        IN tk.cont = "bulkOn" =>
           /\ InFlight(tk) <= 15
           /\ \A k \in 1..Len(calls) : calls[k][2] = tk.list[k]
           /\ Len(calls) = K \/ Len(calls) % 15 = 0
           /\ Len(calls) > 15 =>
                \A k \in NickEntries(tk) :
                   LET b == BatchNo(tk.list, tk.trace[k].uid)
                   IN b > 0 =>
                      \E p \in Pauses(tk) :
                         /\ p < k
                         /\ \A j \in NickEntries(tk) :
                              BatchNo(tk.list, tk.trace[j].uid) < b
                              => j < p /\ CallSettled(tk, tk.trace[j].uid)
           /\ tk.pc \in {"fetch2", "reply", "done"}
                => /\ Len(calls) = K
                   /\ Cardinality(Pauses(tk)) = (K + 14) \div 15

C4_Witness ==
    \E id \in 1..Len(tasks) :
        LET tk == tasks[id]
        IN /\ tk.cont = "bulkOn"
           /\ Len(tk.list) > 15
           /\ tk.pc = "done"
           /\ Cardinality(Pauses(tk)) = 2
           /\ \E k \in Entries(tk, 1) : tk.trace[k].res = "err"


\* C5: when a `nicknames on <nick>` handler returns its acknowledgement, the
\* store holds a nickname lock equal to <nick> for every member a member
\* enumeration of the command returned.
C5_LockForEveryFetched ==
    [][\A id \in 1..Len(tasks) :
          (tasks[id].pc = "fetch2" /\ tasks'[id].pc = "reply")
          => \A u \in Range(tasks'[id].list) \cup Range(tasks'[id].list2) :
                NickIn(locks', tasks[id].ev.thread, u) = tasks[id].val
      ]_vars


\* C6: retryChangeNick makes at most 3 attempts; after failed attempt 1, 2, 3
\* it sleeps at least 250, 400, 550 ms, and a later attempt is made only after
\* the earlier one failed and its sleep was started; a call abandoned as failed
\* has made exactly 3 attempts, all failed, and its caller goes on (the helper
\* has returned false, nothing was thrown).
MinDelay(att) == <<250, 400, 550>>[att + 1]
BackoffAt(tk, j, u, att) ==
    /\ tk.trace[j].op = "sleep"
    /\ tk.trace[j].uid = u
    /\ tk.trace[j].att = att
    /\ tk.trace[j].ms >= MinDelay(att)
C6_RetryThreeTimes ==
    \A id \in 1..Len(tasks) :
        LET tk == tasks[id]
            n == Len(tk.trace)
        IN /\ \A k \in NickEntries(tk) :
                LET c == tk.trace[k]
                IN /\ c.att < 3
                   /\ c.res = "err"
                        => \E j \in (k + 1)..n : BackoffAt(tk, j, c.uid, c.att)
                   /\ c.att > 0
                        => \E h \in 1..k : \E j \in h..k :
                              /\ tk.trace[h].op = "changeNickname"
                              /\ tk.trace[h].uid = c.uid
                              /\ tk.trace[h].att = c.att - 1
                              /\ tk.trace[h].res = "err"
                              /\ BackoffAt(tk, j, c.uid, c.att - 1)
           /\ \A u \in DOMAIN tk.batch :
                tk.batch[u].st = "fail"
                => /\ Cardinality(Entries(tk, u)) = 3
                   /\ \A k \in Entries(tk, u) : tk.trace[k].res = "err"
                   /\ BatchSettled(tk) => tk.pc # "nick"
                   /\ tk.cont \in {"revert", "bulkOn", "bulkOff"}
                        => ~tk.caught

C6_Witness ==
    \E id \in 1..Len(tasks) :
        LET tk == tasks[id]
        IN /\ tk.cont = "revert"
           /\ tk.pc = "done"
           /\ \E u \in DOMAIN tk.batch : tk.batch[u].st = "fail"
           /\ \E j \in 1..Len(tk.trace) :
                tk.trace[j].op = "sleep" /\ tk.trace[j].ms = 550


\* C7 as stated: every corrective call (rename, icon change, nickname change)
\* that the engine gave up on as failed was attempted 3 times.
GivenUp(tk, k) ==
    /\ tk.pc = "done"
    /\ tk.trace[k].op \in {"setTitle", "changeThreadEmoji", "changeNickname"}
    /\ tk.trace[k].res = "err"
    /\ \A j \in 1..Len(tk.trace) :
          (tk.trace[j].op = tk.trace[k].op /\ tk.trace[j].uid = tk.trace[k].uid)
          => tk.trace[j].res = "err"
IsMemberRemoved(ev) == ev.type = "event" /\ ev.logType \in RemoveTypes
C8_AntiOutReAdds ==
    \A id \in 1..Len(tasks) :
        LET ev == tasks[id].ev
        IN (IsMemberRemoved(ev) /\ AntiIn(tasks[id].seen, ev.thread)
            /\ ev.uid # NoUid /\ ev.uid # SelfId)
           => Reqs(tasks[id], "addUserToGroup") = << <<ev.thread, ev.uid, "">> >>

C8_Witness ==
    \E id \in 1..Len(tasks) :
        /\ IsMemberRemoved(tasks[id].ev)
        /\ tasks[id].pc = "done"
        /\ tasks[id].ev.uid = 3
        /\ Len(Reqs(tasks[id], "addUserToGroup")) = 1

\* C9: a handler of a rename, nickname-change or icon-change occurrence has
\* issued a corrective call only if it found the corresponding lock set (for
\* that member) and different from the observed value, and a handler of a
\* member-removed occurrence has issued addUserToGroup only if it found
\* anti-out enabled and the leaving member is not the engine's own identity.
Corrective ==
    {"setTitle", "changeNickname", "changeThreadEmoji", "addUserToGroup"}
Corrected(tk) == {tk.trace[k].op : k \in 1..Len(tk.trace)} \cap Corrective
C9_OnlyWhenWarranted ==
    \A id \in 1..Len(tasks) :
        LET tk == tasks[id]
            ev == tk.ev
            V == GetIn(tk.seen, "groupNames", ev.thread)
            N == NickIn(tk.seen, ev.thread, ev.uid)
            E == GetIn(tk.seen, "emojis", ev.thread)
        IN /\ IsRename(ev) =>
                /\ Corrected(tk) \subseteq {"setTitle"}
                /\ Corrected(tk) # {} => (V # "" /\ ev.val # V)
           /\ IsNickChange(ev) =>
                /\ Corrected(tk) \subseteq {"changeNickname"}
                /\ Corrected(tk) # {} => (N # "" /\ ev.val # N)
           /\ IsIconChange(ev) =>
                /\ Corrected(tk) \subseteq {"changeThreadEmoji"}
                /\ Corrected(tk) # {} => (E # "" /\ ev.val # E)
           /\ IsRemoved(ev) =>
                /\ Corrected(tk) \subseteq {"addUserToGroup"}
                /\ Corrected(tk) # {}
                     => (AntiIn(tk.seen, ev.thread) /\ ev.uid # SelfId)

C9_Witness ==
    \E id \in 1..Len(tasks) :
        /\ IsIconChange(tasks[id].ev)
        /\ tasks[id].pc = "done"
        /\ Corrected(tasks[id]) = {"changeThreadEmoji"}

\* C10: no failure of an external call made by a handler escapes the
\* handler's failure boundary, and the engine keeps running.
C10_FailuresContained ==
    /\ alive
    /\ \A id \in 1..Len(tasks) : ~tasks[id].escaped

\* a message the command section handles: it has a text and its sender is
\* the privileged identity
IsCommand(ev) == ev.body # <<>> /\ ev.sender = BOSS_UID
Verb(ev) == RawCmd(ev.body)
Sub(ev) == ToLower(Arg(Tail(ev.body), 1))
Finished(tk) == tk.pc = "done"

\* C11: whenever every command handler delivered so far has finished, the
\* persisted snapshot holds the in-memory store (an absent snapshot standing
\* for the empty store), for every command and every outcome of its external
\* calls.
C11_SavedWhenFinished ==
    (\A id \in 1..Len(tasks) : Finished(tasks[id])) => Load(disk) = locks

\* C12: in a bulk enforcement, a member whose corrective call failed on all
\* 3 attempts aborts nothing: the handler has not faulted and the process
\* runs, every other member of the member's batch was called, the handler
\* never rests inside a batch whose calls have all returned, and once the
\* handler is past the enforcement every member of the thread was called.
Exhausted(tk, u) ==
    Cardinality({k \in Entries(tk, u) : tk.trace[k].res = "err"}) = 3
Called(tk) == {tk.trace[k].uid : k \in NickEntries(tk)}
C12_FailureAbortsNothing ==
    \A id \in 1..Len(tasks) :
        LET tk == tasks[id]
        IN (tk.cont = "bulkOn" /\ \E u \in Range(tk.list) : Exhausted(tk, u))
           => /\ ~tk.caught
              /\ ~tk.escaped => alive
              /\ Range(Slice(tk.list, tk.idx)) \subseteq Called(tk)
              /\ tk.pc = "nick" => ~BatchSettled(tk)
              /\ tk.pc \in {"fetch2", "reply", "done"}
                    => Called(tk) = Range(tk.list)

C12_Witness ==
    \E id \in 1..Len(tasks) :
        LET tk == tasks[id]
        IN /\ tk.cont = "bulkOn"
           /\ Exhausted(tk, 1)
           /\ tk.pc = "fetch2"
           /\ Len(tk.list) > 15
           /\ Called(tk) = Range(tk.list)

\* C13: after `groupname on X` was issued for thread T, and again after it
\* was issued a second time in succession, the store is the store the first
\* command found with the title lock of T set to X, and the persisted
\* snapshot holds that store: the second command changes nothing.
GroupNameOn(ev, t, x) ==
    /\ IsCommand(ev)
    /\ Verb(ev) = "groupname"
    /\ Sub(ev) = "on"
    /\ Rest(Tail(ev.body), 2) = x
    /\ ev.thread = t
Once(t, x) == [tasks[1].seen EXCEPT !["groupNames"] = Put(@, t, x)]
C13_GroupNameIdempotent ==
    \A t \in Threads : \A x \in Values :
        (/\ Len(tasks) \in {1, 2}
         /\ \A id \in 1..Len(tasks) : GroupNameOn(tasks[id].ev, t, x))
        => /\ locks = Once(t, x)
           /\ disk = Saved(Once(t, x))
           /\ GetIn(locks, "groupNames", t) = x
           /\ Len(tasks) = 2 => tasks[2].seen = Once(t, x)

C13_Witness ==
    /\ Len(tasks) = 2
    /\ tasks[1].ev.body = <<"groupname", "on", "a">>
    /\ tasks[2].ev.body = <<"/groupname", "ON", "a">>
    /\ tasks[1].ev.thread = "t1" /\ tasks[2].ev.thread = "t1"
    /\ IsCommand(tasks[1].ev) /\ IsCommand(tasks[2].ev)
    /\ Finished(tasks[1]) /\ Finished(tasks[2])
    /\ disk = <<locks>>

\* C14: after a startup without snapshot, as long as no command other than
\* groupinfo was delivered, the store is the one loaded from the absent
\* snapshot, it holds no lock of any kind for any thread, and every report a
\* groupinfo handler of the privileged identity has sent lists no active
\* lock and went to the thread of the query.
NoLock(lk, t) ==
    /\ ~Truthy(GetIn(lk, "groupNames", t))
    /\ ~(Has(lk, "nicknames") /\ Has(lk["nicknames"], t))
    /\ ~Truthy(GetIn(lk, "emojis", t))
    /\ ~AntiIn(lk, t)
OnlyQueries ==
    \A j \in 1..Len(tasks) :
        IsCommand(tasks[j].ev) => Verb(tasks[j].ev) = "groupinfo"
Reports(tk) ==
    {k \in 1..Len(tk.trace) :
        tk.trace[k].op = "sendMessage" /\ tk.trace[k].val = "info"}
C14_AbsentSnapshotNoLocks ==
    OnlyQueries
    => /\ locks = Load(<<>>)
       /\ \A t \in Threads : NoLock(locks, t)
       /\ \A id \in 1..Len(tasks) : \A k \in Reports(tasks[id]) :
             /\ tasks[id].trace[k].info = {}
             /\ tasks[id].trace[k].thread = tasks[id].ev.thread

C14_Witness ==
    /\ OnlyQueries
    /\ \E id \in 1..Len(tasks) :
          /\ IsCommand(tasks[id].ev)
          /\ Finished(tasks[id])
          /\ Reports(tasks[id]) # {}

\* C15: whatever locks.json held at startup (nothing, unparsable text, an
\* object without some of the four maps, a complete snapshot), no later
\* command handler of the privileged identity faults: none ends in the
\* handler's catch, and no groupinfo whose member enumeration succeeded
\* answers with a failure notice.
Faulted(tk) ==
    \/ tk.caught
    \/ /\ Verb(tk.ev) = "groupinfo"
       /\ \E k \in 1..Len(tk.trace) : \E j \in 1..Len(tk.trace) :
             /\ tk.trace[k].op = "getThreadInfo" /\ tk.trace[k].res = "ok"
             /\ tk.trace[j].op = "sendMessage" /\ tk.trace[j].val = "infoFail"
C15_RestoredStoreUsable ==
    \A id \in 1..Len(tasks) : IsCommand(tasks[id].ev) => ~Faulted(tasks[id])

\* C16: a step of a handler of a command of the privileged identity that
\* lacks a required argument (groupname on, nicknames on, nickname on/off,
\* emoji, adduser, target on, or a sub-action that is neither on nor off)
\* leaves the store and the snapshot as they are, and all the handler has
\* ever issued is one usage-hint reply.
NoSub(ev) == Sub(ev) \notin {"on", "off"}
MissingArg(ev) ==
    LET args == Tail(ev.body)
        verb == Verb(ev)
    IN /\ ev.type = "message"
       /\ IsCommand(ev)
       /\ \/ verb \in {"groupname", "nicknames"}
             /\ (NoSub(ev) \/ (Sub(ev) = "on" /\ Rest(args, 2) = ""))
          \/ verb = "nickname"
             /\ \/ NoSub(ev)
                \/ Sub(ev) = "on" /\ (Arg(args, 2) = "" \/ Rest(args, 3) = "")
                \/ Sub(ev) = "off" /\ Arg(args, 2) = ""
          \/ verb \in {"emoji", "adduser"} /\ Arg(args, 1) = ""
          \/ verb = "target"
             /\ (NoSub(ev) \/ (Sub(ev) = "on" /\ Arg(args, 2) = ""))
          \/ verb = "antiout" /\ NoSub(ev)
C16_UsageOnly ==
    [][\A id \in 1..Len(tasks') :
          (/\ MissingArg(tasks'[id].ev)
           /\ (id > Len(tasks) \/ tasks'[id] # tasks[id]))
          => /\ locks' = locks
             /\ disk' = disk
             /\ Len(tasks'[id].trace) = 1
             /\ tasks'[id].trace[1].op = "sendMessage"
             /\ tasks'[id].trace[1].val = "usage"
      ]_vars

C16_Witness ==
    \E id \in 1..Len(tasks) : \E other \in 1..Len(tasks) :
        /\ MissingArg(tasks[id].ev)
        /\ tasks[id].ev.body = <<"nickname", "on", "3">>
        /\ Finished(tasks[id])
        /\ tasks[id].trace[1].res = "ok"
        /\ Truthy(GetIn(tasks[id].seen, "emojis", "t1"))
        /\ tasks[other].ev.body = <<"emoji", "a">>

\* C17: every reply a command handler has sent (acknowledgement, usage hint
\* or failure notice) was sent to the thread in which the command message was
\* received.
Replies(tk) == {k \in 1..Len(tk.trace) : tk.trace[k].op = "sendMessage"}
C17_RepliesToOrigin ==
    \A id \in 1..Len(tasks) :
        (tasks[id].ev.type = "message" /\ IsCommand(tasks[id].ev))
        => \A k \in Replies(tasks[id]) :
              tasks[id].trace[k].thread = tasks[id].ev.thread

\* C18: a step of a handler of an occurrence of type event whose sub-type is
\* none of those the handler maps (thread-name, nickname, icon, member
\* removed), whatever sender and text the occurrence carries, issues no
\* external call and leaves the store as it is.
Unrecognized(ev) ==
    /\ ev.type = "event"
    /\ ~IsRename(ev) /\ ~IsNickChange(ev) /\ ~IsIconChange(ev) /\ ~IsRemoved(ev)
C18_UnrecognizedInert ==
    [][\A id \in 1..Len(tasks') :
          (/\ Unrecognized(tasks'[id].ev)
           /\ (id > Len(tasks) \/ tasks'[id] # tasks[id]))
          => /\ locks' = locks
             /\ tasks'[id].trace = <<>>
      ]_vars

\* C19: a handler of a rename, nickname-change, icon-change or
\* member-removed occurrence that lacks its payload field (new name, member
\* id or nickname, icon value, leaving member) has issued no corrective call,
\* whatever locks are set for the thread.
LacksPayload(ev) ==
    \/ IsRename(ev) /\ ev.val = ""
    \/ IsNickChange(ev) /\ (ev.uid = NoUid \/ ev.val = "")
    \/ IsIconChange(ev) /\ ev.val = ""
    \/ IsRemoved(ev) /\ ev.uid = NoUid
C19_NoPayloadNoCall ==
    \A id \in 1..Len(tasks) :
        LacksPayload(tasks[id].ev) => Corrected(tasks[id]) = {}

\* C20: a `nicknames off` handler for thread T that has completed has issued
\* a nickname change to the empty string for every member that held a
\* nickname lock in T when the command arrived, and for no one else; at the
\* step that completes it T has no nickname lock left; and a nickname-change
\* occurrence for T delivered after it completed, with no command that sets
\* nickname locks delivered besides, triggers no call at all.
NicknamesOff(ev) ==
    ev.type = "message" /\ IsCommand(ev) /\ Verb(ev) = "nicknames"
    /\ Sub(ev) = "off"
Completed(tk) == tk.pc \in {"reply", "done"} /\ ~tk.caught
Held(lk, t) ==
    IF Has(lk, "nicknames") /\ Has(lk["nicknames"], t)
    THEN DOMAIN lk["nicknames"][t] ELSE {}
SetsNick(ev) ==
    IsCommand(ev) /\ Verb(ev) \in {"nicknames", "nickname"} /\ Sub(ev) = "on"
Cleared(tk) ==
    {<<tk.trace[k].thread, tk.trace[k].uid, tk.trace[k].val>> :
        k \in NickEntries(tk)}
C20_Issued ==
    \A id \in 1..Len(tasks) :
        (NicknamesOff(tasks[id].ev) /\ Completed(tasks[id]))
        => Cleared(tasks[id])
             = {<<tasks[id].ev.thread, u, "">> :
                  u \in Held(tasks[id].seen, tasks[id].ev.thread)}
C20_Step ==
    \A id \in 1..Len(tasks') :
        LET ev == tasks'[id].ev
        IN /\ (/\ NicknamesOff(ev)
               /\ Completed(tasks'[id])
               /\ (id > Len(tasks) \/ ~Completed(tasks[id])))
              => Held(locks', ev.thread) = {}
                 /\ ~(Has(locks', "nicknames")
                      /\ Has(locks'["nicknames"], ev.thread))
           /\ (/\ id > Len(tasks)
               /\ IsNickChange(ev)
               /\ \E j \in 1..Len(tasks) :
                     /\ NicknamesOff(tasks[j].ev)
                     /\ tasks[j].ev.thread = ev.thread
                     /\ Completed(tasks[j])
               /\ \A j \in 1..Len(tasks) : ~SetsNick(tasks[j].ev))
              => tasks'[id].trace = <<>>
C20_NicknamesOffClears == [](C20_Issued) /\ [][C20_Step]_vars

C20_Witness ==
    /\ Len(tasks) = 2
    /\ NicknamesOff(tasks[1].ev)
    /\ Finished(tasks[1])
    /\ Held(tasks[1].seen, "t1") = {2, 3}
    /\ Cleared(tasks[1]) = {<<"t1", 2, "">>, <<"t1", 3, "">>}
    /\ IsNickChange(tasks[2].ev)
    /\ tasks[2].ev.uid = 3
    /\ Held(tasks[2].seen, "t1") = {}
    /\ tasks[2].trace = <<>>

\* C21: a `groupname off` handler for thread T issues no rename request (all
\* it issues is its acknowledgement); the occurrence delivered next finds no
\* title lock for T; and a rename occurrence for T delivered after it, with
\* no `groupname on` for T delivered in between, has issued no rename
\* request. (tasks is in order of delivery.)
GroupNameOff(ev, t) ==
    /\ ev.type = "message" /\ IsCommand(ev)
    /\ Verb(ev) = "groupname" /\ Sub(ev) = "off"
    /\ ev.thread = t
SetsTitle(ev, t) ==
    IsCommand(ev) /\ Verb(ev) = "groupname" /\ Sub(ev) = "on" /\ ev.thread = t
UnlockedBefore(id, t) ==
    \E j \in 1..(id - 1) :
        /\ GroupNameOff(tasks[j].ev, t)
        /\ \A k \in (j + 1)..(id - 1) : ~SetsTitle(tasks[k].ev, t)
C21_GroupNameOffClears ==
    \A id \in 1..Len(tasks) :
        LET tk == tasks[id]
            t == tk.ev.thread
        IN /\ GroupNameOff(tk.ev, t)
              => /\ Reqs(tk, "setTitle") = <<>>
                 /\ \A k \in 1..Len(tk.trace) :
                       tk.trace[k].op = "sendMessage"
                       /\ tk.trace[k].val = "unlocked"
                 /\ (id < Len(tasks)
                       => ~Truthy(GetIn(tasks[id + 1].seen, "groupNames", t)))
                 /\ (id = Len(tasks) => ~Truthy(Get("groupNames", t)))
           /\ (IsRename(tk.ev) /\ UnlockedBefore(id, t))
              => Reqs(tk, "setTitle") = <<>>

C21_Witness ==
    /\ Len(tasks) = 2
    /\ GroupNameOff(tasks[1].ev, "t1")
    /\ GetIn(tasks[1].seen, "groupNames", "t1") = "a"
    /\ Finished(tasks[1])
    /\ tasks[2].ev = Rename("t1", "b")
    /\ Finished(tasks[2])
    /\ tasks[2].trace = <<>>

\* C22: every step of a `nickname on <uid> <nick>` or `nickname off <uid>`
\* handler for thread T leaves the title, icon, anti-out and target entries of
\* every thread, the nickname locks of every other thread and the nickname
\* lock of every other member of T as they are; the step at which the handler
\* returns its acknowledgement leaves (T, uid) locked to <nick> for `on` and
\* not locked for `off`.
NickVerb(ev) ==
    /\ ev.type = "message" /\ IsCommand(ev) /\ Verb(ev) = "nickname"
    /\ Sub(ev) \in {"on", "off"}
Member(ev) == ParseUid(Arg(Tail(ev.body), 2))
Members == 0..3
SameButNick(lk1, lk2, t, u) ==
    /\ DOMAIN lk1 = DOMAIN lk2
    /\ \A f \in DOMAIN lk1 \ {"nicknames"} : lk1[f] = lk2[f]
    /\ \A t2 \in Threads \ {t} : Held(lk1, t2) = Held(lk2, t2)
    /\ \A t2 \in Threads : \A m \in Members :
          (t2 # t \/ m # u) => NickIn(lk1, t2, m) = NickIn(lk2, t2, m)
Acked(tk, kind) ==
    /\ tk.pc = "reply"
    /\ tk.trace[Len(tk.trace)].val = kind
C22_SingleMemberOnly ==
    [][\A id \in 1..Len(tasks') :
          LET tk == tasks'[id]
              t == tk.ev.thread
              u == Member(tk.ev)
          IN (NickVerb(tk.ev) /\ (id > Len(tasks) \/ tk # tasks[id]))
             => /\ SameButNick(locks, locks', t, u)
                /\ (Sub(tk.ev) = "on" /\ Acked(tk, "ack"))
                   => NickIn(locks', t, u) = Rest(Tail(tk.ev.body), 3)
                /\ (Sub(tk.ev) = "off" /\ Acked(tk, "unlocked"))
                   => ~Truthy(NickIn(locks', t, u))
      ]_vars

C22_Witness ==
    /\ Len(tasks) = 2
    /\ tasks[1].ev.body = <<"nickname", "on", "3", "b">>
    /\ tasks[2].ev.body = <<"nickname", "off", "3">>
    /\ NickIn(tasks[1].seen, "t1", 3) = "a"
    /\ NickIn(tasks[2].seen, "t1", 3) = "b"
    /\ Finished(tasks[1]) /\ Finished(tasks[2])
    /\ ~tasks[2].caught
    /\ NickOf("t1", 3) = ""
    /\ NickOf("t1", 2) = "a"
    /\ Get("groupNames", "t1") = "a"

\* C23: an `emoji <value>` handler for thread T has issued exactly one icon
\* change, changeThreadEmoji(T, value), as its first call, and the occurrence
\* delivered next finds the icon lock of T equal to <value>; an icon-change
\* occurrence for T delivered after it (the latest emoji command for T before
\* the occurrence) has issued one changeThreadEmoji(T, value) when it
\* carries another value, and none when it carries <value>.
EmojiCmd(ev, t) ==
    /\ ev.type = "message" /\ IsCommand(ev) /\ Verb(ev) = "emoji"
    /\ Arg(Tail(ev.body), 1) # ""
    /\ ev.thread = t
IconOf(ev) == Arg(Tail(ev.body), 1)
LatestEmoji(id, j, t) ==
    /\ j < id
    /\ EmojiCmd(tasks[j].ev, t)
    /\ \A k \in (j + 1)..(id - 1) : ~EmojiCmd(tasks[k].ev, t)
C23_EmojiLocks ==
    \A id \in 1..Len(tasks) :
        LET tk == tasks[id]
            t == tk.ev.thread
        IN /\ EmojiCmd(tk.ev, t)
              => /\ Reqs(tk, "changeThreadEmoji") = << <<t, NoUid, IconOf(tk.ev)>> >>
                 /\ tk.trace[1].op = "changeThreadEmoji"
                 /\ (id < Len(tasks)
                       => GetIn(tasks[id + 1].seen, "emojis", t) = IconOf(tk.ev))
                 /\ (id = Len(tasks) => Get("emojis", t) = IconOf(tk.ev))
           /\ IsIconChange(tk.ev)
              => \A j \in 1..(id - 1) :
                    LatestEmoji(id, j, t)
                    => Reqs(tk, "changeThreadEmoji")
                         = IF tk.ev.val # IconOf(tasks[j].ev)
                           THEN << <<t, NoUid, IconOf(tasks[j].ev)>> >>
                           ELSE <<>>

C23_Witness ==
    /\ Len(tasks) = 2
    /\ EmojiCmd(tasks[1].ev, "t1")
    /\ IconOf(tasks[1].ev) = "a"
    /\ tasks[2].ev = IconChange("log:thread-icon", "t1", "b")
    /\ Finished(tasks[1]) /\ Finished(tasks[2])
    /\ Reqs(tasks[2], "changeThreadEmoji") = << <<"t1", NoUid, "a">> >>

C23_WitnessSame ==
    /\ Len(tasks) = 2
    /\ EmojiCmd(tasks[1].ev, "t1")
    /\ IconOf(tasks[1].ev) = "b"
    /\ tasks[2].ev = IconChange("log:thread-icon-change", "t1", "b")
    /\ tasks[2].trace = <<>>

\* C24: every step of a handler of adduser, uid, groupinfo or help leaves
\* the store and the persisted snapshot as they are, whatever the store holds
\* and however the handler's external calls end; all an adduser <uid> handler
\* issues besides its reply is one addUserToGroup(uid, T), and the other
\* three issue no corrective or membership call.
ReadOnlyVerb(ev) ==
    /\ ev.type = "message" /\ IsCommand(ev)
    /\ Verb(ev) \in {"adduser", "uid", "groupinfo", "help"}
C24_ReadOnlyVerbs ==
    [][\A id \in 1..Len(tasks') :
          LET tk == tasks'[id]
              t == tk.ev.thread
              toAdd == ParseUid(Arg(Tail(tk.ev.body), 1))
          IN (ReadOnlyVerb(tk.ev) /\ (id > Len(tasks) \/ tk # tasks[id]))
             => /\ locks' = locks
                /\ disk' = disk
                /\ Corrected(tk) \subseteq {"addUserToGroup"}
                /\ Reqs(tk, "addUserToGroup")
                     = IF Verb(tk.ev) = "adduser" /\ toAdd # NoUid
                       THEN << <<t, toAdd, "">> >> ELSE <<>>
      ]_vars

C24_Witness ==
    \E id \in 1..Len(tasks) : \E other \in 1..Len(tasks) :
        /\ tasks[id].ev.body = <<"adduser", "3">>
        /\ IsCommand(tasks[id].ev)
        /\ Finished(tasks[id])
        /\ tasks[id].trace[1].res = "err"
        /\ AntiIn(tasks[id].seen, "t1")
        /\ tasks[other].ev.body = <<"/Help">>
        /\ Finished(tasks[other])
        /\ AntiOn("t1")
        /\ NickOf("t1", 3) = "a"

\* C25: of two threads of one engine whose locks are the same and whose
\* stored targets differ, each receiving the same occurrence: the handlers
\* of the two occurrences, when they found the same locks for their threads,
\* have issued the same sequence of corrective calls (rename, nickname, icon,
\* add; the thread apart); once both have finished with the same outcomes of
\* their calls the two threads hold the same locks again; a handler of
\* `target on/off` issues no corrective call; and the store differs from the
\* one loaded at startup in the target alone while only target commands
\* were delivered, and not in the target while none was.
ThreadView(lk, t) ==
    <<GetIn(lk, "groupNames", t),
      IF Has(lk, "nicknames") /\ Has(lk["nicknames"], t)
      THEN <<lk["nicknames"][t]>> ELSE <<>>,
      GetIn(lk, "emojis", t),
      AntiIn(lk, t)>>
FirstCalls(tk) ==
    LET s == SelectSeq(tk.trace, LAMBDA c : c.op \in Corrective /\ c.att = 0)
    IN [k \in 1..Len(s) |-> <<s[k].op, s[k].uid, s[k].val>>]
Outcomes(tk) ==
    {<<tk.trace[k].op, tk.trace[k].uid, tk.trace[k].val, tk.trace[k].att,
       tk.trace[k].res>> : k \in 1..Len(tk.trace)}
Strip(lk) == [f \in DOMAIN lk \ {"target"} |-> lk[f]]
TargetOf(lk) == IF Has(lk, "target") THEN <<lk["target"]>> ELSE <<>>
TargetVerb(ev) == IsCommand(ev) /\ Verb(ev) = "target"
C25_TargetInert ==
    /\ \A k \in 1..MaxTwinOcc + 1 :
          2 * k <= Len(tasks)
          => LET one == tasks[2 * k - 1]
                 two == tasks[2 * k]
             IN ThreadView(one.seen, "t1") = ThreadView(two.seen, "t2")
                => FirstCalls(one) = FirstCalls(two)
    /\ (/\ Len(tasks) = 2
        /\ Finished(tasks[1]) /\ Finished(tasks[2])
        /\ Outcomes(tasks[1]) = Outcomes(tasks[2]))
       => ThreadView(locks, "t1") = ThreadView(locks, "t2")
    /\ \A id \in 1..Len(tasks) :
          TargetVerb(tasks[id].ev) => Corrected(tasks[id]) = {}
    /\ (Len(tasks) > 0 /\ \A id \in 1..Len(tasks) : TargetVerb(tasks[id].ev))
       => Strip(locks) = Strip(tasks[1].seen)
    /\ (Len(tasks) > 0 /\ \A id \in 1..Len(tasks) : ~TargetVerb(tasks[id].ev))
       => TargetOf(locks) = TargetOf(tasks[1].seen)

C25_Witness ==
    /\ Len(tasks) = 2
    /\ IsNickChange(tasks[1].ev)
    /\ tasks[1].ev.uid = 3
    /\ Finished(tasks[1]) /\ Finished(tasks[2])
    /\ Get("target", "t1") = "3"
    /\ Get("target", "t2") = ""
    /\ FirstCalls(tasks[1]) = << <<"changeNickname", 3, "a">> >>
    /\ FirstCalls(tasks[2]) = FirstCalls(tasks[1])

C25_WitnessTarget ==
    /\ Len(tasks) = 2
    /\ tasks[1].ev.body = <<"target", "off">>
    /\ Finished(tasks[1]) /\ Finished(tasks[2])
    /\ TargetOf(locks) # TargetOf(tasks[1].seen)

\* C26: for every administrator A at most one child process of A is running
\* (a child the panel has killed not counted), and a running child of A is
\* the one procs[A] refers to.
LiveKids(admin) ==
    {k \in 1..Len(kids) : kids[k].admin = admin /\ kids[k].st = "running"}
C26_OneTrackedInstance ==
    \A admin \in Admins :
        /\ Cardinality(LiveKids(admin)) <= 1
        /\ \A k \in LiveKids(admin) : Has(procs, admin) /\ procs[admin] = k

\* C27: after a `nicknames off` or a `nickname off <uid>` handler for thread
\* T was started, no handler of a nickname-change occurrence that reports the
\* emptied nickname of a member for whom the command has issued its
\* set-to-empty call (what the platform emits for that call) has issued a nickname change carrying the value
\* the member was locked to.
Unlocking(tk) ==
    IF NicknamesOff(tk.ev) THEN Held(tk.seen, tk.ev.thread)
    ELSE IF NickVerb(tk.ev) /\ Sub(tk.ev) = "off" THEN {Member(tk.ev)}
    ELSE {}
C27_NoRevertWhileUnlocking ==
    \A i \in 1..Len(tasks) : \A j \in (i + 1)..Len(tasks) :
        LET cmd == tasks[i]
            occ == tasks[j]
            old == NickIn(cmd.seen, cmd.ev.thread, occ.ev.uid)
        IN (/\ IsNickChange(occ.ev)
            /\ occ.ev.thread = cmd.ev.thread
            /\ occ.ev.val = ""
            /\ occ.ev.uid \in Unlocking(cmd)
            /\ \E k \in Entries(cmd, occ.ev.uid) : cmd.trace[k].val = ""
            /\ Truthy(old))
           => \A k \in Entries(occ, occ.ev.uid) : occ.trace[k].val # old

\* C28: after a `nickname on <uid> B` or a `nicknames on B` handler for
\* thread T was started that replaces a lock of value A by B, no handler of a
\* nickname-change occurrence that reports the member's new nickname B, for
\* a member for whom the command has issued its call, has issued a nickname
\* change carrying A.
Relocking(tk, u) ==
    /\ tk.ev.type = "message" /\ IsCommand(tk.ev) /\ Sub(tk.ev) = "on"
    /\ \/ Verb(tk.ev) = "nickname" /\ Member(tk.ev) = u
       \/ Verb(tk.ev) = "nicknames"
NewNick(ev) ==
    IF Verb(ev) = "nickname" THEN Rest(Tail(ev.body), 3)
    ELSE Rest(Tail(ev.body), 2)
C28_NoRevertWhileRelocking ==
    \A i \in 1..Len(tasks) : \A j \in (i + 1)..Len(tasks) :
        LET cmd == tasks[i]
            occ == tasks[j]
            old == NickIn(cmd.seen, cmd.ev.thread, occ.ev.uid)
        IN (/\ IsNickChange(occ.ev)
            /\ occ.ev.thread = cmd.ev.thread
            /\ Relocking(cmd, occ.ev.uid)
            /\ occ.ev.val = NewNick(cmd.ev)
            /\ \E k \in Entries(cmd, occ.ev.uid) :
                   cmd.trace[k].val = NewNick(cmd.ev)
            /\ Truthy(old) /\ old # NewNick(cmd.ev))
           => \A k \in Entries(occ, occ.ev.uid) : occ.trace[k].val # old

\* C29: under a stable lock with selfListen, the handler of the occurrence
\* emitted for a successful corrective call (or for the notification that
\* follows a nickname revert) issues no call at all (the occurrence carries
\* the locked value), every corrective call belongs to
\* the handler of a change made by another participant, and once those
\* changes stop the engine comes to rest: every handler has finished and no
\* occurrence is left to deliver.
IsEcho(tk) == tk.ev.sender = SelfId
EchoInert ==
    \A id \in 1..Len(tasks) :
        IsEcho(tasks[id]) =>
            /\ tasks[id].trace = <<>>
            /\ Finished(tasks[id])
            /\ tasks[id].ev.type = "event" => tasks[id].ev.val =
                 (CASE tasks[id].ev.logType = "log:thread-name" ->
                         Get("groupNames", tasks[id].ev.thread)
                    [] tasks[id].ev.logType = "log:user-nickname" ->
                         NickOf(tasks[id].ev.thread, tasks[id].ev.uid)
                    [] OTHER -> Get("emojis", tasks[id].ev.thread))
AtRest ==
    /\ \A id \in 1..Len(tasks) : Finished(tasks[id])
    /\ \A c \in OkCalls :
          Echoed(EchoOf(tasks[c[1]].trace[c[2]]))
            = Emitted(EchoOf(tasks[c[1]].trace[c[2]]))
    /\ Len(tasks) <= 3 * MaxExternal
C29_NoFeedbackLoop ==
    /\ [](locks = FullSnapshot /\ EchoInert)
    /\ (Cardinality(External) = MaxExternal) ~> [](AtRest)
C29_Witness ==
    /\ Cardinality(External) = MaxExternal
    /\ \E id \in 1..Len(tasks) : \E c \in OkCalls :
          /\ tasks[id].ev = EchoOf(tasks[c[1]].trace[c[2]])
          /\ tasks[id].ev.logType = "log:user-nickname"
    /\ \E id \in 1..Len(tasks) : \E c \in OkCalls :
          /\ tasks[id].ev = EchoOf(tasks[c[1]].trace[c[2]])
          /\ tasks[id].ev.type = "message"
    /\ AtRest

\* C30: a handler of a change occurrence whose corrective call was abandoned
\* (three failed changeNickname attempts, or the one rejected setTitle or
\* changeThreadEmoji) has issued nothing corrective beyond those attempts,
\* whatever it did afterwards (the last backoff, the notification), the
\* periodic save issues no call, and the store is as the handler found it.
Failed(tk) ==
    {k \in 1..Len(tk.trace) :
        tk.trace[k].op \in Corrective /\ tk.trace[k].res = "err"}
Abandoned(tk) ==
    /\ tk.ev.type = "event"
    /\ IF IsNickChange(tk.ev) THEN Exhausted(tk, tk.ev.uid) ELSE Failed(tk) # {}
Budget(tk) == IF IsNickChange(tk.ev) THEN Retries ELSE 1
C30_AbandonedStaysAbandoned ==
    \A id \in 1..Len(tasks) :
        LET tk == tasks[id]
        IN Abandoned(tk) =>
            /\ Cardinality({k \in 1..Len(tk.trace) :
                               tk.trace[k].op \in Corrective}) = Budget(tk)
            /\ Cardinality(Failed(tk)) = Budget(tk)
            /\ locks = tk.seen
            /\ locks = FullSnapshot
C30_Witness ==
    /\ \E id \in 1..Len(tasks) :
          /\ Abandoned(tasks[id]) /\ IsNickChange(tasks[id].ev)
          /\ Finished(tasks[id])
          /\ tasks[id].trace[Len(tasks[id].trace)].op = "sendMessage"
    /\ \E id \in 1..Len(tasks) :
          /\ Abandoned(tasks[id]) /\ ~IsNickChange(tasks[id].ev)
          /\ Finished(tasks[id])

\* C31: every report a groupinfo handler builds while no other handler is
\* running (every command delivered so far has finished) lists the nickname
\* lock as active for its thread exactly when at least one member of that
\* thread holds a nickname lock in the store.
NewReports(id) == Reports(tasks'[id]) \ Reports(tasks[id])
OthersFinished(id) ==
    \A j \in 1..Len(tasks) : j # id => Finished(tasks[j])
C31_Step ==
    \A id \in 1..Len(tasks) :
        \A k \in NewReports(id) :
            OthersFinished(id) =>
                (("Nickname Lock" \in tasks'[id].trace[k].info)
                    <=> (Held(locks, tasks[id].ev.thread) # {}))
C31_NickLockReported == [][C31_Step]_vars

\* C32: once a `nicknames on <nick>` handler has sent its success
\* acknowledgement, the members for whom it issued a changeNickname call are
\* exactly the members whose lock entries it stored.
Acknowledged(tk) ==
    \E k \in 1..Len(tk.trace) :
        tk.trace[k].op = "sendMessage" /\ tk.trace[k].val = "ack"
Stored(tk) == Range(tk.list2)
C32_EnforcedAreLocked ==
    \A id \in 1..Len(tasks) :
        LET tk == tasks[id]
        IN (/\ IsCommand(tk.ev) /\ Verb(tk.ev) = "nicknames"
            /\ Sub(tk.ev) = "on" /\ Acknowledged(tk))
           => Called(tk) = Stored(tk)

====
